---- MODULE Spec2Model ----
(***************************************************************************)
(* Model of plex_overseerr_backup.py and of backup_scheduler.py.           *)
(*                                                                         *)
(* Spec        : the restore path, PlexLibraryBackup.restore_to_overseerr, *)
(*               the progress ledger it loads and saves, the batch cap.    *)
(* SpecCleanup : the backup directory and cleanup_old_backups.             *)
(* SpecConcurrent : two restore processes on one snapshot and one progress *)
(*               file.                                                     *)
(* SpecSnapshot : the snapshot file, from the write of export_library to   *)
(*               the load and checksum verification of the restore.        *)
(* SpecExport  : a backup run: the probe of the constructor, export_library *)
(*               and the result run_backup of the scheduler makes of it.   *)
(*                                                                         *)
(* Every specification has its own variables; the variables of the others  *)
(* stay at their initial values.                                           *)
(*                                                                         *)
(* Python dicts are TLA+ functions (records): a key that is absent from a  *)
(* dict is absent from the DOMAIN.  An optional value (None / a value) is  *)
(* a sequence of length 0 or 1.                                            *)
(***************************************************************************)
EXTENDS Integers, Sequences, FiniteSets, TLC

\* ---------------------------------------------------------------- bounds
MaxItems == 2
MaxLibs == 2
MaxEpisodes == 2
MaxBatch == 1
MaxRuns == 2
MaxDay == 2
MaxKeep == 1
MaxValueLen == 2
MaxFullItems == 101
MaxDetailedEpisodes == 11
MaxOps == 3

\* ------------------------------------------------------------ python bits
EmptyDict == <<>>
None == <<>>
Some(v) == <<v>>

Has(d, k) == k \in DOMAIN d
Get(d, k, default) == IF k \in DOMAIN d THEN d[k] ELSE default
SetKey(d, k, v) == (k :> v) @@ d

\* int(tmdb_id): the strings int() accepts, and their values
IntValue == [s \in {"111", "603"} |-> IF s = "111" THEN 111 ELSE 603]
IsTruthyStr(s) == s # ""

\* `if batch_limit` : None and 0 are both falsy
TruthyInt(opt) == Len(opt) = 1 /\ opt[1] # 0

\* ------------------------------------------------------------- snapshot
LibNames == <<"Movies", "TV Shows", "Kids">>

Movie(path, flag, tmdb) ==
    [type |-> "movie", title |-> "Alpha", file_path |-> path,
     file_exists |-> flag, tmdb_id |-> tmdb]
Show(eps, tmdb) ==
    [type |-> "show", title |-> "Beta", episodes |-> eps, tmdb_id |-> tmdb]

\* item records as export_library writes them (optional keys omitted), and
\* records that lack a key the restore loop reads; 'ratingKey' is added by
\* position, except to the one template marked FALSE
ItemKinds ==
    { Movie("/m/a.mkv", TRUE, "111"),
      Movie("/m/a.mkv", FALSE, "111"),
      Movie("", FALSE, "111"),
      [type |-> "movie", title |-> "Alpha", file_exists |-> FALSE, tmdb_id |-> "111"],
      [type |-> "movie", title |-> "Alpha", file_path |-> "/m/a.mkv", file_exists |-> FALSE],
      Movie("/m/a.mkv", FALSE, "tt0111"),
      [type |-> "show", title |-> "Beta", episodes |-> MaxEpisodes],
      [type |-> "artist", title |-> "Gamma"],
      [type |-> "movie", file_path |-> "/m/a.mkv", file_exists |-> FALSE, tmdb_id |-> "111"],
      [title |-> "Delta", tmdb_id |-> "111"] }
    \cup { Show(e, "603") : e \in 0..MaxEpisodes }

Templates ==
    { <<TRUE, r>> : r \in ItemKinds } \cup { <<FALSE, Movie("/m/a.mkv", FALSE, "111")>> }

Keyed(t, k) == IF t[1] THEN SetKey(t[2], "ratingKey", k) ELSE t[2]

RECURSIVE SumSeq(_)
SumSeq(s) == IF s = <<>> THEN 0 ELSE s[1] + SumSeq(Tail(s))

Offset(sizes, l) == SumSeq(SubSeq(sizes, 1, l - 1))

\* the size of a snapshot: its items, and one for each library without items
\* (a library whose listing failed is stored with an empty list)
Weight(sizes) == SumSeq([l \in 1..Len(sizes) |-> IF sizes[l] = 0 THEN 1 ELSE sizes[l]])

\* libraries in stored order, each with its items in stored order
MakeSnapshot(flat, sizes) ==
    [l \in 1..Len(sizes) |->
        [name |-> LibNames[l],
         items |-> [i \in 1..sizes[l] |-> Keyed(flat[Offset(sizes, l) + i], i)]]]

Snapshots ==
    UNION { UNION { { MakeSnapshot(flat, sizes) :
                        flat \in [1..n -> Templates] } :
                    sizes \in { s \in UNION {[1..k -> 0..n] : k \in 0..MaxLibs} :
                                  SumSeq(s) = n /\ Weight(s) <= MaxItems } } :
            n \in 0..MaxItems }


Positions(bd) ==
    UNION { { <<l, i>> : i \in 1..Len(bd[l].items) } : l \in 1..Len(bd) }

\* ------------------------------------------------------------ environment
\* what request_with_retry hands back for the live episode query
LiveOutcomes ==
    { [kind |-> "ok", leafCount |-> c] : c \in 0..MaxEpisodes }
    \cup { [kind |-> k, leafCount |-> 0] : k \in {"nometa", "non200", "raise"} }

Statuses == {200, 201, 202, 403, 409, 429, 500}

\* what request_with_retry hands back for a create-request
HttpOutcomes ==
    { [raised |-> FALSE, status |-> st, csrf |-> FALSE] : st \in Statuses }
    \cup { [raised |-> FALSE, status |-> 403, csrf |-> TRUE],
           [raised |-> TRUE, status |-> 0, csrf |-> FALSE] }

\* ------------------------------------------------------------------ state
VARIABLES
    backup_data,        \* the snapshot's 'libraries', in stored order
    batch_limit,        \* None or Some(n)
    progress_file,      \* TRUE iff a progress file path was given
    ledger_file,        \* the progress file on disk: None or Some(dict)
    pc,                 \* "idle", "loop", "submit", "save", "done", "raised"
    run,                \* number of restore_to_overseerr calls started
    lib_idx, item_idx,  \* position of the two nested for loops
    progress_data,      \* the dict loaded from / saved to the progress file
    stats,
    requests_created_this_batch,
    loaded_keys,        \* history: keys of 'submitted' as loaded by this run
    file_before,        \* history: the progress file when this run started
    load_result,        \* history: "none", "absent", "loaded", "failed"
    save_result,        \* history: the last save: "none", "saved", "failed"
    trace,              \* history: per item, what this run did with it
    last,               \* history: the details of the item handled last
    accepted            \* history: per item, 2xx create-requests over all runs

restore_vars ==
    << backup_data, batch_limit, progress_file, ledger_file, pc, run,
       lib_idx, item_idx, progress_data, stats,
       requests_created_this_batch, loaded_keys, file_before, load_result,
       save_result, trace, last, accepted >>

\* the backup directory (SpecCleanup)
VARIABLES
    backup_dir,         \* the files of the directory: name -> st_mtime (a day)
    today,              \* datetime.now(), in days
    removed             \* history: the names unlinked so far

cleanup_vars == << backup_dir, today, removed >>

\* two restore processes (SpecConcurrent); they share backup_data,
\* batch_limit, progress_file and ledger_file
VARIABLES
    procs               \* per process: its position and its local variables

\* the snapshot file (SpecSnapshot)
VARIABLES
    document,           \* backup_data of export_library: <<key, value>> pairs
    linesep,            \* os.linesep of the installation: "LF" or "CRLF"
    snapshot_file,      \* the text of the file: None or Some(text)
    exported_file,      \* history: the file as export_library left it
    snap_pc,            \* "built", "written", "loaded"
    loaded              \* what the load of the restore path produced

snapshot_vars == << document, linesep, snapshot_file, exported_file, snap_pc, loaded >>

\* a backup run (SpecExport)
VARIABLES
    export_args,        \* the server and the arguments of the run
    ex                  \* the position and the local variables of the run

export_vars == << export_args, ex >>

\* restore-full of ui.py (SpecFull)
VARIABLES
    full                \* the request, the progress file and the loop of restore_full

\* the files of a restore run (SpecFiles)
VARIABLES
    io                  \* the disk, the arguments and the position of one run

\* one call of request_with_retry (SpecRetry)
VARIABLES
    rq                  \* the arguments, the loop and the result of the call

\* analyze_missing_items of ui.py on one show (SpecAnalyze)
VARIABLES
    an                  \* the item, the disk and the result of the analysis

\* verify_file_exists (SpecVerify)
VARIABLES
    vf                  \* the raw item, the disk and the result of the check

\* review against restore (SpecReview)
VARIABLES
    rv                  \* the snapshot, the disk, the server and what each path found

\* restore-selected and restore runs on one snapshot (SpecSelected)
VARIABLES
    sl                  \* the snapshot, the ledger and the create-requests sent per item

\* restore runs repeated on one ledger (SpecRuns, SpecRejected)
VARIABLES
    mr                  \* the snapshot, the environment, the ledger and the runs so far

more_vars == << full, io, rq, an, vf, rv, sl, mr >>

old_vars == << restore_vars, cleanup_vars, procs, snapshot_vars, export_vars >>

vars == << old_vars, more_vars >>

\* what a restore run leaves alone
params ==
    << backup_data, batch_limit, progress_file, cleanup_vars, procs, snapshot_vars,
       export_vars, more_vars >>

InitStats ==
    [total_missing |-> 0, requests_created |-> 0, requests_skipped |-> 0,
     already_exist |-> 0, batch_limit_reached |-> FALSE, errors |-> 0,
     re_verified_exist |-> 0]

\* what a run did with an item: "none", "ledger", "exists", "unknown",
\* "missing" (found missing, submission not yet decided), "limit", "notmdb",
\* "unsupported", "created", "rejected", "error", "raise"
NoOutcome == "none"

\* the item the run handled last.  stat: "none", "present", "absent" (the answer
\* of the disk); live: the kind of the live query's outcome, "none" if none was
\* made; current: current_episodes, -1 before it is set; posts: calls of
\* request_with_retry('post'); answer: "none", "accepted" (the last response
\* was 200, 201 or 202), "refused" (any other status)
\* first, second: what the create-request and its re-send came back with,
\* "none" if it was not sent (see Seen)
NoLast ==
    [pos |-> <<0, 0>>, outcome |-> "none", stat |-> "none", live |-> "none",
     current |-> -1, posts |-> 0, answer |-> "none", first |-> "none",
     second |-> "none"]

Submitted(d) == Get(d, "submitted", EmptyDict)
SubmittedKeys(d) == DOMAIN Submitted(d)
FileKeys(f) == IF f = None THEN {} ELSE SubmittedKeys(f[1])

CleanupIdle ==
    /\ backup_dir = EmptyDict
    /\ today = 0
    /\ removed = {}

SnapshotIdle ==
    /\ document = <<>>
    /\ linesep = "LF"
    /\ snapshot_file = None
    /\ exported_file = None
    /\ snap_pc = "built"
    /\ loaded = None

ExportIdle ==
    /\ export_args = EmptyDict
    /\ ex = EmptyDict

FullIdle == full = EmptyDict

FilesIdle == io = EmptyDict

RetryIdle == rq = EmptyDict

AnalyzeIdle == an = EmptyDict

VerifyIdle == vf = EmptyDict

ReviewIdle == rv = EmptyDict

SelectedIdle == sl = EmptyDict

RunsIdle == mr = EmptyDict

MoreIdle ==
    /\ FullIdle /\ FilesIdle /\ RetryIdle /\ AnalyzeIdle /\ VerifyIdle
    /\ ReviewIdle /\ SelectedIdle /\ RunsIdle

Init ==
    /\ CleanupIdle
    /\ SnapshotIdle
    /\ ExportIdle
    /\ MoreIdle
    /\ procs = <<>>
    /\ backup_data \in Snapshots
    /\ batch_limit \in {None} \cup { Some(n) : n \in 0..MaxBatch }
    /\ progress_file \in BOOLEAN
    /\ ledger_file = None
    /\ pc = "idle"
    /\ run = 0
    /\ lib_idx = 0
    /\ item_idx = 0
    /\ progress_data = EmptyDict
    /\ stats = InitStats
    /\ requests_created_this_batch = 0
    /\ loaded_keys = {}
    /\ file_before = None
    /\ load_result = "none"
    /\ save_result = "none"
    /\ trace = [p \in Positions(backup_data) |-> NoOutcome]
    /\ last = NoLast
    /\ accepted = [p \in Positions(backup_data) |-> 0]

\* ---------------------------------------------------------- loop position
\* the libraries after l that have an item
LaterLibs(bd, l) == { m \in (l + 1)..Len(bd) : Len(bd[m].items) > 0 }

Min(S) == CHOOSE x \in S : \A y \in S : x <= y

Max(S) == CHOOSE x \in S : \A y \in S : x >= y

NextPosMut(bd, l, i) ==
    IF l >= 1 /\ l <= Len(bd) /\ i < Len(bd[l].items) THEN <<l, i + 1>>
    ELSE IF LaterLibs(bd, l) # {} THEN <<Max(LaterLibs(bd, l)), 1>>
    ELSE <<0, 0>>

\* the position the two for loops reach after <<l, i>>; <<0, 0>> at the end
NextPos(bd, l, i) ==
    IF l >= 1 /\ l <= Len(bd) /\ i < Len(bd[l].items) THEN <<l, i + 1>>
    ELSE IF LaterLibs(bd, l) # {} THEN <<Min(LaterLibs(bd, l)), 1>>
    ELSE <<0, 0>>

CurItem == backup_data[lib_idx].items[item_idx]
CurPos == <<lib_idx, item_idx>>


\* ------------------------------------------------- reconciliation (per item)
ItemId(lib_name, item) == <<lib_name, item.ratingKey>>

AlreadySubmittedMut(item_id, pd) == FALSE
AlreadySubmitted(item_id, pd) == item_id \in SubmittedKeys(pd)

\* current_episodes after the live query
CurrentEpisodes(live, backed_up_episodes) ==
    IF live.kind = "raise" THEN backed_up_episodes
    ELSE IF live.kind = "ok" THEN live.leafCount
    ELSE 0

ShowIsPresentMut(current_episodes, backed_up_episodes) ==
    current_episodes > backed_up_episodes
ShowIsPresent(current_episodes, backed_up_episodes) ==
    current_episodes >= backed_up_episodes

\* the movie branch reads the disk only when a non-empty file_path is stored
StatsPath(item) == Has(item, "file_path") /\ IsTruthyStr(item.file_path)

FileExistsNowMut(item, on_disk) ==
    Get(item, "file_exists", FALSE)
FileExistsNow(item, on_disk) ==
    IF StatsPath(item) THEN on_disk ELSE FALSE

Rec(o, st, lv, cur) ==
    [outcome |-> o, stat |-> st, live |-> lv, current |-> cur]

\* the loop body up to the batch check; on_disk and live are what the disk and
\* the media server answer if asked.  A log line formats item['title'] whether
\* or not its level is enabled, so a record without a title raises KeyError.
Reconcile(item, lib_name, pd, on_disk, live) ==
    IF ~Has(item, "ratingKey") THEN Rec("raise", "none", "none", -1)
    ELSE IF AlreadySubmitted(ItemId(lib_name, item), pd) THEN
        IF Has(item, "title") THEN Rec("ledger", "none", "none", -1)
        ELSE Rec("raise", "none", "none", -1)
    ELSE IF ~Has(item, "type") THEN Rec("raise", "none", "none", -1)
    ELSE IF item.type = "show" THEN
        LET backed_up_episodes == Get(item, "episodes", 0) IN
        IF backed_up_episodes = 0 THEN
            IF Has(item, "title") THEN Rec("exists", "none", "none", -1)
            ELSE Rec("raise", "none", "none", -1)
        ELSE
            LET cur == CurrentEpisodes(live, backed_up_episodes) IN
            IF ~Has(item, "title") THEN Rec("raise", "none", live.kind, cur)
            ELSE IF ShowIsPresent(cur, backed_up_episodes)
                 THEN Rec("exists", "none", live.kind, cur)
                 ELSE Rec("missing", "none", live.kind, cur)
    ELSE IF item.type = "movie" THEN
        LET st == IF StatsPath(item)
                  THEN (IF on_disk THEN "present" ELSE "absent") ELSE "none" IN
        IF ~Has(item, "title") THEN Rec("raise", st, "none", -1)
        ELSE IF FileExistsNow(item, on_disk) THEN Rec("exists", st, "none", -1)
        ELSE Rec("missing", st, "none", -1)
    ELSE Rec("unknown", "none", "none", -1)

\* ---------------------------------------------------- submission (per item)
BatchLimitHitMut(limit, created) == TruthyInt(limit) /\ created > limit[1]
BatchLimitHit(limit, created) == TruthyInt(limit) /\ created >= limit[1]

IsCreatedMut(status) == status \in {200, 201, 202, 409}
IsCreated(status) == status \in {200, 201, 202}

IsCsrfRejectionMut(resp) == resp.status = 403
IsCsrfRejection(resp) == resp.status = 403 /\ resp.csrf

\* what a call of request_with_retry('post') came back with: "raised",
\* "403-csrf" (status 403, 'csrf' in the body), "403", "accepted" (200, 201,
\* 202), "refused" (any other status)
Seen(resp) ==
    IF resp.raised THEN "raised"
    ELSE IF resp.status = 403 THEN (IF resp.csrf THEN "403-csrf" ELSE "403")
    ELSE IF resp.status \in {200, 201, 202} THEN "accepted"
    ELSE "refused"

\* the answer recorded for a response, by the statuses themselves
Answer(status) ==
    IF status = 0 THEN "none"
    ELSE IF status = 200 \/ status = 201 \/ status = 202 THEN "accepted"
    ELSE "refused"

Sub(o, n, st) == [outcome |-> o, posts |-> n, answer |-> Answer(st)]

\* tmdb_id = item.get('tmdb_id'), None read as the empty string
TmdbId(item) == Get(item, "tmdb_id", "")

\* `if not tmdb_id` is the negation of this
HasTmdbIdMut(item) == TRUE
HasTmdbId(item) == IsTruthyStr(TmdbId(item))

\* the try block: first and second are what request_with_retry returns (or
\* raises) for the create-request and for its re-send with the bypass headers
SubmitItem(item, first, second) ==
    IF Has(item, "type") /\ item.type \in {"movie", "show"} THEN
        IF ~HasTmdbId(item) THEN
            IF Has(item, "title") THEN Sub("notmdb", 0, 0) ELSE Sub("raise", 0, 0)
        ELSE IF ~Has(item, "title") THEN Sub("raise", 0, 0)
        ELSE IF TmdbId(item) \notin DOMAIN IntValue THEN Sub("error", 0, 0)
        ELSE IF first.raised THEN Sub("error", 1, 0)
        ELSE IF IsCsrfRejection(first) THEN
            IF second.raised THEN Sub("error", 2, first.status)
            ELSE IF IsCreated(second.status) THEN Sub("created", 2, second.status)
            ELSE Sub("rejected", 2, second.status)
        ELSE IF IsCreated(first.status) THEN Sub("created", 1, first.status)
        ELSE Sub("rejected", 1, first.status)
    ELSE IF Has(item, "title") /\ Has(item, "type") THEN Sub("unsupported", 0, 0)
    ELSE Sub("raise", 0, 0)

BumpMut(st, field) == [st EXCEPT ![field] = @ + (IF field = "errors" THEN 0 ELSE 1)]
\* stats[field] += 1
Bump(st, field) == [st EXCEPT ![field] = @ + 1]

\* progress_data['submitted'][item_id] = {...}, creating 'submitted' if absent
RecordSubmitted(pd, item_id, item, now) ==
    SetKey(pd, "submitted",
           SetKey(Submitted(pd), item_id,
                  [title |-> item.title, type |-> item.type, submitted_at |-> now]))

\* --------------------------------------------------------------- actions
\* the load of the progress file: progress_data starts as {} and is replaced
\* only when the file exists and open() and json.load() succeed (readable)
LoadProgressMut(given, file, readable) ==
    IF ~given THEN [res |-> "none", pd |-> EmptyDict]
    ELSE IF file = None THEN [res |-> "absent", pd |-> EmptyDict]
    ELSE IF readable THEN [res |-> "loaded", pd |-> file[1]]
    ELSE [res |-> "failed", pd |-> file[1]]
LoadProgress(given, file, readable) ==
    IF ~given THEN [res |-> "none", pd |-> EmptyDict]
    ELSE IF file = None THEN [res |-> "absent", pd |-> EmptyDict]
    ELSE IF readable THEN [res |-> "loaded", pd |-> file[1]]
    ELSE [res |-> "failed", pd |-> EmptyDict]

\* restore_to_overseerr is called: the progress file is loaded, the counters
\* are reset and the loops start at the first item
StartRestore ==
    /\ pc \in {"idle", "done", "raised"}
    /\ run < MaxRuns
    /\ \E readable \in BOOLEAN :
          LET ld == LoadProgress(progress_file, ledger_file, readable)
              np == NextPos(backup_data, 0, 0)
          IN /\ load_result' = ld.res
             /\ progress_data' = ld.pd
             /\ loaded_keys' = SubmittedKeys(ld.pd)
             /\ lib_idx' = np[1]
             /\ item_idx' = np[2]
             /\ pc' = IF np = <<0, 0>> THEN "save" ELSE "loop"
    /\ run' = run + 1
    /\ file_before' = ledger_file
    /\ stats' = InitStats
    /\ requests_created_this_batch' = 0
    /\ trace' = [p \in Positions(backup_data) |-> NoOutcome]
    /\ last' = NoLast
    /\ UNCHANGED << params, ledger_file, save_result, accepted >>

\* continue: the next item, the next library, or the end of both loops
Advance ==
    LET np == NextPos(backup_data, lib_idx, item_idx) IN
    /\ lib_idx' = np[1]
    /\ item_idx' = np[2]
    /\ pc' = IF np = <<0, 0>> THEN "save" ELSE "loop"

\* one item up to the batch check
Examine ==
    /\ pc = "loop"
    /\ \E on_disk \in BOOLEAN, live \in LiveOutcomes :
          LET r == Reconcile(CurItem, backup_data[lib_idx].name, progress_data,
                             on_disk, live)
          IN /\ trace' = [trace EXCEPT ![CurPos] = r.outcome]
             /\ last' = [pos |-> CurPos, outcome |-> r.outcome, stat |-> r.stat,
                         live |-> r.live, current |-> r.current, posts |-> 0,
                         answer |-> "none", first |-> "none", second |-> "none"]
             /\ CASE r.outcome = "raise" ->
                        /\ pc' = "raised"
                        /\ UNCHANGED << stats, lib_idx, item_idx >>
                  [] r.outcome = "missing" ->
                        /\ stats' = Bump(stats, "total_missing")
                        /\ pc' = "submit"
                        /\ UNCHANGED << lib_idx, item_idx >>
                  [] r.outcome = "exists" ->
                        /\ stats' = Bump(stats, "already_exist")
                        /\ Advance
                  [] OTHER ->
                        /\ stats' = Bump(stats, "requests_skipped")
                        /\ Advance
    /\ UNCHANGED << params, ledger_file, run, progress_data,
                    requests_created_this_batch, loaded_keys, file_before,
                    load_result, save_result, accepted >>

\* the batch check and the try block of an item found missing
Submit ==
    /\ pc = "submit"
    /\ IF BatchLimitHit(batch_limit, requests_created_this_batch)
       THEN /\ stats' = [stats EXCEPT !.batch_limit_reached = TRUE]
            /\ trace' = [trace EXCEPT ![CurPos] = "limit"]
            /\ last' = [last EXCEPT !.outcome = "limit"]
            /\ pc' = "save"
            /\ UNCHANGED << lib_idx, item_idx, progress_data,
                            requests_created_this_batch, accepted >>
       ELSE \E first \in HttpOutcomes :
            \E second \in (IF IsCsrfRejection(first) THEN HttpOutcomes ELSE {first}) :
              LET r == SubmitItem(CurItem, first, second) IN
              /\ trace' = [trace EXCEPT ![CurPos] = r.outcome]
              /\ last' = [last EXCEPT !.outcome = r.outcome, !.posts = r.posts,
                                      !.answer = r.answer,
                                      !.first = IF r.posts >= 1 THEN Seen(first)
                                                ELSE "none",
                                      !.second = IF r.posts >= 2 THEN Seen(second)
                                                 ELSE "none"]
              /\ CASE r.outcome = "raise" ->
                         /\ pc' = "raised"
                         /\ UNCHANGED << stats, lib_idx, item_idx, progress_data,
                                         requests_created_this_batch, accepted >>
                   [] r.outcome = "created" ->
                         /\ stats' = Bump(stats, "requests_created")
                         /\ requests_created_this_batch' = requests_created_this_batch + 1
                         /\ progress_data' =
                               IF progress_file
                               THEN RecordSubmitted(progress_data,
                                        ItemId(backup_data[lib_idx].name, CurItem),
                                        CurItem, run)
                               ELSE progress_data
                         /\ accepted' = [accepted EXCEPT ![CurPos] = @ + 1]
                         /\ Advance
                   [] r.outcome = "error" ->
                         /\ stats' = Bump(stats, "errors")
                         /\ Advance
                         /\ UNCHANGED << progress_data, requests_created_this_batch,
                                         accepted >>
                   [] OTHER ->
                         /\ stats' = Bump(stats, "requests_skipped")
                         /\ Advance
                         /\ UNCHANGED << progress_data, requests_created_this_batch,
                                         accepted >>
    /\ UNCHANGED << params, ledger_file, run, loaded_keys, file_before, load_result,
                    save_result >>

\* open(progress_path, 'w') and json.dump(progress_data): the file holds the
\* dict of the writer and nothing of what it held before
OverwriteMut(file, pd) ==
    IF file = None THEN Some(pd)
    ELSE Some(SetKey(pd, "submitted", Submitted(pd) @@ Submitted(file[1])))
Overwrite(file, pd) == Some(pd)

\* after the loops: the whole dict is written over the progress file; a
\* failure to write is logged and the statistics are returned all the same
SaveProgress ==
    /\ pc = "save"
    /\ IF progress_file
       THEN \E written \in BOOLEAN :
              /\ progress_data' = SetKey(progress_data, "last_updated", run)
              /\ ledger_file' = IF written THEN Overwrite(ledger_file, progress_data')
                                           ELSE ledger_file
              /\ save_result' = IF written THEN "saved" ELSE "failed"
       ELSE UNCHANGED << progress_data, ledger_file, save_result >>
    /\ pc' = "done"
    /\ UNCHANGED << params, run, lib_idx, item_idx, stats,
                    requests_created_this_batch, loaded_keys, file_before,
                    load_result, trace, last, accepted >>

Next == StartRestore \/ Examine \/ Submit \/ SaveProgress

Spec == Init /\ [][Next]_vars


\* the restore path at rest, with an empty snapshot
RestoreIdle ==
    /\ backup_data = <<>>
    /\ batch_limit = None
    /\ progress_file = FALSE
    /\ ledger_file = None
    /\ pc = "idle"
    /\ run = 0
    /\ lib_idx = 0
    /\ item_idx = 0
    /\ progress_data = EmptyDict
    /\ stats = InitStats
    /\ requests_created_this_batch = 0
    /\ loaded_keys = {}
    /\ file_before = None
    /\ load_result = "none"
    /\ save_result = "none"
    /\ trace = <<>>
    /\ last = NoLast
    /\ accepted = <<>>

\* ------------------------------------------------- the backup directory
\* A file name is a sequence of pieces, "plex_library_" <day> ".json" for
\* the snapshot written on that day; a pattern with one * matches a name by
\* its first and its last piece.
SnapshotName(day) == <<"plex_library_", ToString(day), ".json">>

\* a progress ledger, by its name
IsProgress(name) == Len(name) >= 2 /\ name[Len(name) - 1] = "_progress"

\* str(backup_file) + '.gz'
CompressedName(name) == name \o <<".gz">>

\* Path.stem: the name without its last suffix
Stem(name) == SubSeq(name, 1, Len(name) - 1)

\* backup_file.parent / f"{backup_file.stem}_progress.json"
ProgressName(backup_file) == Stem(backup_file) \o <<"_progress", ".json">>

\* backup_dir.glob('plex_library_*.json')
GlobBackups(names) ==
    { n \in names : Len(n) >= 2 /\ n[1] = "plex_library_" /\ n[Len(n)] = ".json" }

\* ui.py lists the snapshots it offers for restore by these two patterns
GlobCompressed(names) ==
    { n \in names : Len(n) >= 3 /\ n[1] = "plex_library_"
                     /\ n[Len(n) - 1] = ".json" /\ n[Len(n)] = ".gz" }

\* the files cleanup_old_backups unlinks: file_mtime < cutoff_timestamp
ToRemove(files, now, days_to_keep) ==
    { n \in GlobBackups(DOMAIN files) : files[n] < now - days_to_keep }

Touch(files, name, now) == (name :> now) @@ files

Drop(files, names) == [n \in DOMAIN files \ names |-> files[n]]

InitCleanup ==
    /\ RestoreIdle
    /\ SnapshotIdle
    /\ ExportIdle
    /\ MoreIdle
    /\ procs = <<>>
    /\ backup_dir = EmptyDict
    /\ today = 0
    /\ removed = {}

\* a day passes
Tick ==
    /\ today < MaxDay
    /\ today' = today + 1
    /\ UNCHANGED << backup_dir, removed, restore_vars, procs, snapshot_vars, export_vars, more_vars >>

\* a backup: run_backup of the scheduler writes plex_library_<stamp>.json;
\* the backup of ui.py writes the same name and, when asked, replaces it by
\* its compressed copy
RunBackup ==
    /\ \E compress \in BOOLEAN :
          LET name == SnapshotName(today) IN
          backup_dir' =
              IF compress
              THEN Touch(Drop(backup_dir, {name}), CompressedName(name), today)
              ELSE Touch(backup_dir, name, today)
    /\ UNCHANGED << today, removed, restore_vars, procs, snapshot_vars, export_vars, more_vars >>

\* restore_batch of ui.py on one of the snapshots of the directory: the
\* restore run writes the progress file next to the snapshot
RestoreBatch ==
    /\ \E backup_file \in GlobBackups(DOMAIN backup_dir) \cup GlobCompressed(DOMAIN backup_dir) :
          /\ ~IsProgress(backup_file)
          /\ backup_dir' = Touch(backup_dir, ProgressName(backup_file), today)
    /\ UNCHANGED << today, removed, restore_vars, procs, snapshot_vars, export_vars, more_vars >>

CleanupOldBackups ==
    /\ \E days_to_keep \in 0..MaxKeep :
          LET gone == ToRemove(backup_dir, today, days_to_keep) IN
          /\ backup_dir' = Drop(backup_dir, gone)
          /\ removed' = removed \cup gone
    /\ UNCHANGED << today, restore_vars, procs, snapshot_vars, export_vars, more_vars >>

NextCleanup == Tick \/ RunBackup \/ RestoreBatch \/ CleanupOldBackups

SpecCleanup == InitCleanup /\ [][NextCleanup]_vars

\* ------------------------------------------------ two restore processes
Procs == {1, 2}

\* snapshots of one library whose items are a movie and a show, both with
\* tmdb_id and title
ConcSnapshots ==
    UNION { { MakeSnapshot(flat, <<n>>) :
                flat \in [1..n -> { <<TRUE, Movie("/m/a.mkv", FALSE, "111")>>,
                                    <<TRUE, Show(MaxEpisodes, "603")>> }] } :
            n \in 1..MaxItems }

\* a process before its call; sent: the items it got an accepted
\* create-request for; saved: "none", "saved", "failed"
ProcIdle ==
    [pc |-> "idle", lib_idx |-> 0, item_idx |-> 0, progress_data |-> EmptyDict,
     stats |-> InitStats, requests_created_this_batch |-> 0, sent |-> {},
     saved |-> "none"]

InitConcurrent ==
    /\ CleanupIdle
    /\ SnapshotIdle
    /\ ExportIdle
    /\ MoreIdle
    /\ backup_data \in ConcSnapshots
    /\ batch_limit \in {None, Some(MaxBatch)}
    /\ progress_file = TRUE
    /\ ledger_file = None
    /\ pc = "idle"
    /\ run = 0
    /\ lib_idx = 0
    /\ item_idx = 0
    /\ progress_data = EmptyDict
    /\ stats = InitStats
    /\ requests_created_this_batch = 0
    /\ loaded_keys = {}
    /\ file_before = None
    /\ load_result = "none"
    /\ save_result = "none"
    /\ trace = [p \in Positions(backup_data) |-> NoOutcome]
    /\ last = NoLast
    /\ accepted = [p \in Positions(backup_data) |-> 0]
    /\ procs = [p \in Procs |-> ProcIdle]

\* the fields of a process after `continue`
Continue(st) ==
    LET np == NextPos(backup_data, st.lib_idx, st.item_idx) IN
    [st EXCEPT !.lib_idx = np[1], !.item_idx = np[2],
               !.pc = IF np = <<0, 0>> THEN "save" ELSE "loop"]

\* process p enters restore_to_overseerr and loads the progress file
ProcStart(p) ==
    /\ procs[p].pc = "idle"
    /\ \E readable \in BOOLEAN :
          LET ld == LoadProgress(progress_file, ledger_file, readable) IN
          procs' = [procs EXCEPT ![p] =
                       Continue([ProcIdle EXCEPT !.progress_data = ld.pd])]
    /\ UNCHANGED << restore_vars, cleanup_vars, snapshot_vars, export_vars, more_vars >>

\* one pass of process p through the loop body
ProcItem(p) ==
    LET st == procs[p]
        item == backup_data[st.lib_idx].items[st.item_idx]
        lib_name == backup_data[st.lib_idx].name
    IN
    /\ st.pc = "loop"
    /\ \E on_disk \in BOOLEAN, live \in LiveOutcomes, first \in HttpOutcomes :
       \E second \in (IF IsCsrfRejection(first) THEN HttpOutcomes ELSE {first}) :
          LET r == Reconcile(item, lib_name, st.progress_data, on_disk, live)
              found == [st EXCEPT !.stats = Bump(st.stats, "total_missing")]
              s == SubmitItem(item, first, second)
          IN procs' = [procs EXCEPT ![p] =
               CASE r.outcome = "raise" -> [st EXCEPT !.pc = "raised"]
                 [] r.outcome = "exists" ->
                      Continue([st EXCEPT !.stats = Bump(st.stats, "already_exist")])
                 [] r.outcome = "missing" ->
                      IF BatchLimitHit(batch_limit, st.requests_created_this_batch)
                      THEN [found EXCEPT !.stats.batch_limit_reached = TRUE,
                                         !.pc = "save"]
                      ELSE CASE s.outcome = "raise" -> [found EXCEPT !.pc = "raised"]
                             [] s.outcome = "created" ->
                                  Continue([found EXCEPT
                                      !.stats = Bump(found.stats, "requests_created"),
                                      !.requests_created_this_batch = @ + 1,
                                      !.progress_data =
                                          RecordSubmitted(@, ItemId(lib_name, item), item, p),
                                      !.sent = @ \cup {<<st.lib_idx, st.item_idx>>}])
                             [] s.outcome = "error" ->
                                  Continue([found EXCEPT !.stats = Bump(found.stats, "errors")])
                             [] OTHER ->
                                  Continue([found EXCEPT
                                      !.stats = Bump(found.stats, "requests_skipped")])
                 [] OTHER ->
                      Continue([st EXCEPT !.stats = Bump(st.stats, "requests_skipped")])]
    /\ UNCHANGED << restore_vars, cleanup_vars, snapshot_vars, export_vars, more_vars >>

\* process p writes its dict over the progress file and returns
ProcSave(p) ==
    /\ procs[p].pc = "save"
    /\ \E written \in BOOLEAN :
          LET pd == SetKey(procs[p].progress_data, "last_updated", p) IN
          /\ procs' = [procs EXCEPT ![p].progress_data = pd, ![p].pc = "done",
                                    ![p].saved = IF written THEN "saved" ELSE "failed"]
          /\ ledger_file' = IF written THEN Overwrite(ledger_file, pd) ELSE ledger_file
    /\ UNCHANGED << backup_data, batch_limit, progress_file, pc, run, lib_idx,
                    item_idx, progress_data, stats, requests_created_this_batch,
                    loaded_keys, file_before, load_result, save_result, trace,
                    last, accepted, cleanup_vars, snapshot_vars,
                    export_vars, more_vars >>

NextConcurrent ==
    \E p \in Procs : ProcStart(p) \/ ProcItem(p) \/ ProcSave(p)

SpecConcurrent == InitConcurrent /\ [][NextConcurrent]_vars

\* ------------------------------------------------------ the snapshot file
\* A document is the sequence of the <<key, value>> pairs of a dict, in dict
\* order; a value is a string, a sequence of characters.  A text is a
\* sequence of tokens.
Chars == {"a", "e-acute"}

Values == UNION { [1..n -> Chars] : n \in 0..MaxValueLen }

\* the dict literal of export_library, for the keys that are modelled
Documents ==
    { << <<"plex_url", u>>, <<"libraries", l>> >> : u \in Values, l \in Values }

\* json.dump, ensure_ascii=True: a character outside ASCII becomes an escape
Encode(c) == IF c = "e-acute" THEN "esc-u00e9" ELSE c
Decode(t) == IF t = "esc-u00e9" THEN "e-acute" ELSE t

RECURSIVE Flatten(_)
Flatten(ss) == IF ss = <<>> THEN <<>> ELSE Head(ss) \o Flatten(Tail(ss))

\* json.dump(..., indent=2) into a file opened in text mode: one pair per
\* line, the line ends written as os.linesep, none after the closing brace
Serialize(doc, nl) ==
    <<"{", nl>>
    \o Flatten([i \in 1..Len(doc) |->
          <<"indent", "quote", doc[i][1], "quote", "colon", "quote">>
          \o [j \in 1..Len(doc[i][2]) |-> Encode(doc[i][2][j])]
          \o <<"quote">>
          \o (IF i < Len(doc) THEN <<"comma">> ELSE <<>>)
          \o <<nl>>])
    \o <<"}">>

IsWhitespace(t) == t \in {"LF", "CRLF", "indent"}

FirstQuote(t) == CHOOSE i \in 1..Len(t) : t[i] = "quote" /\ \A j \in 1..(i - 1) : t[j] # "quote"

RECURSIVE ParsePairs(_)
ParsePairs(t) ==
    IF t = <<>> \/ Head(t) = "}" THEN <<>>
    ELSE IF Head(t) = "comma" THEN ParsePairs(Tail(t))
    ELSE LET rest == SubSeq(t, 6, Len(t))
             n == FirstQuote(rest)
         IN << <<t[2], [j \in 1..(n - 1) |-> Decode(rest[j])]>> >>
            \o ParsePairs(SubSeq(rest, n + 1, Len(rest)))

\* json.load: whitespace between tokens is skipped
Parse(text) == ParsePairs(Tail(SelectSeq(text, LAMBDA t : ~IsWhitespace(t))))

\* hashlib.sha256 over the bytes of the file, as a hash without collisions:
\* the digest has one hex token per token hashed
HexTable ==
    [t \in {"{", "}", "LF", "CRLF", "indent", "quote", "colon", "comma", "a",
            "esc-u00e9", "e-acute", "plex_url", "libraries"} |->
        CASE t = "{" -> "0" [] t = "}" -> "1" [] t = "LF" -> "2" [] t = "CRLF" -> "3"
          [] t = "indent" -> "4" [] t = "quote" -> "5" [] t = "colon" -> "6"
          [] t = "comma" -> "7" [] t = "a" -> "8" [] t = "esc-u00e9" -> "9"
          [] t = "e-acute" -> "A" [] t = "plex_url" -> "B" [] t = "libraries" -> "C"]

calculate_checksum(text) ==
    [i \in 1..Len(text) |-> IF text[i] \in DOMAIN HexTable THEN HexTable[text[i]] ELSE text[i]]

HasChecksum(doc) == \E i \in 1..Len(doc) : doc[i][1] = "checksum"
StoredChecksum(doc) == doc[CHOOSE i \in 1..Len(doc) : doc[i][1] = "checksum"][2]

\* backup_copy = backup_data.copy(); del backup_copy['checksum']
WithoutChecksumMut(doc) == doc
WithoutChecksum(doc) == SelectSeq(doc, LAMBDA p : p[1] # "checksum")

\* backup_data['checksum'] = checksum
WithChecksum(doc, checksum) == doc \o << <<"checksum", checksum>> >>

\* the two writes of export_library
ExportText(doc, nl) ==
    Serialize(WithChecksum(doc, calculate_checksum(Serialize(doc, nl))), nl)

\* what follows the comparison of the two checksums
AfterVerifyMut(mismatch) == IF mismatch THEN "abort" ELSE "proceed"
AfterVerify(mismatch) == "proceed"

\* the load of restore_to_overseerr on an installation whose line end is nl:
\* the document, the two checksums, the warning, and whether the run goes on
LoadSnapshot(text, nl) ==
    LET backup == Parse(text)
        stored == IF HasChecksum(backup) THEN StoredChecksum(backup) ELSE <<>>
        calculated == IF HasChecksum(backup)
                      THEN calculate_checksum(Serialize(WithoutChecksum(backup), nl))
                      ELSE <<>>
        mismatch == HasChecksum(backup) /\ calculated # stored
    IN [backup_data |-> backup, stored |-> stored, calculated |-> calculated,
        warned |-> mismatch, outcome |-> AfterVerify(mismatch)]

\* backup_data.get('libraries', {}): what the loops of the restore iterate over
Libraries(doc) ==
    IF \E i \in 1..Len(doc) : doc[i][1] = "libraries"
    THEN doc[CHOOSE i \in 1..Len(doc) : doc[i][1] = "libraries"][2]
    ELSE <<>>

InitSnapshot ==
    /\ RestoreIdle
    /\ CleanupIdle
    /\ ExportIdle
    /\ MoreIdle
    /\ procs = <<>>
    /\ document \in Documents
    /\ linesep \in {"LF", "CRLF"}
    /\ snapshot_file = None
    /\ exported_file = None
    /\ snap_pc = "built"
    /\ loaded = None

\* export_library writes the file, hashes it, and writes it again with the
\* checksum
WriteSnapshot ==
    /\ snap_pc = "built"
    /\ snapshot_file' = Some(ExportText(document, linesep))
    /\ exported_file' = snapshot_file'
    /\ snap_pc' = "written"
    /\ UNCHANGED << document, linesep, loaded, restore_vars, cleanup_vars, procs,
                    export_vars, more_vars >>

\* the file is edited by hand: one value, the checksum's included, is replaced
EditSnapshot ==
    /\ snap_pc = "written"
    /\ LET doc == Parse(snapshot_file[1]) IN
       \E i \in 1..Len(doc), v \in Values :
          snapshot_file' = Some(Serialize([doc EXCEPT ![i][2] = v], linesep))
    /\ UNCHANGED << document, linesep, exported_file, snap_pc, loaded, restore_vars,
                    cleanup_vars, procs, export_vars, more_vars >>

\* restore_to_overseerr loads the file and verifies its checksum
LoadAndVerify ==
    /\ snap_pc = "written"
    /\ loaded' = Some(LoadSnapshot(snapshot_file[1], linesep))
    /\ snap_pc' = "loaded"
    /\ UNCHANGED << document, linesep, snapshot_file, exported_file, restore_vars,
                    cleanup_vars, procs, export_vars, more_vars >>

NextSnapshot == WriteSnapshot \/ EditSnapshot \/ LoadAndVerify

SpecSnapshot == InitSnapshot /\ [][NextSnapshot]_vars

\* ---------------------------------------------------------- a backup run
\* raw items as the media server lists them.  Guid is a list of entries, each
\* a dict with an id (scheme and value) or something that is not a dict; Media
\* is a list of dicts with a list Part of dicts with a file.
Tmdb == [scheme |-> "tmdb", value |-> "111"]
Tvdb == [scheme |-> "tvdb", value |-> "77"]
NotADict == [notadict |-> TRUE]
MediaOf(path) == << [Part |-> << [file |-> path] >>] >>

RawKinds ==
    { [type |-> "movie", title |-> "Alpha", ratingKey |-> "1",
       Guid |-> <<Tmdb>>, Media |-> MediaOf("/m/a.mkv")],
      [type |-> "movie", title |-> "Alpha", ratingKey |-> "1",
       Media |-> MediaOf("/m/a.mkv")],
      [type |-> "movie", ratingKey |-> "1", Guid |-> <<Tmdb>>],
      [type |-> "movie", ratingKey |-> "1", Media |-> MediaOf("")],
      [type |-> "movie", title |-> "Alpha", ratingKey |-> "1", Guid |-> <<NotADict>>],
      [type |-> "show", title |-> "Beta", ratingKey |-> "1",
       Guid |-> <<Tvdb, Tmdb>>, leafCount |-> MaxEpisodes, childCount |-> 1],
      [type |-> "show", title |-> "Beta", ratingKey |-> "1"],
      [type |-> "artist", title |-> "Gamma", ratingKey |-> "1"],
      NotADict }

\* the libraries of the server in the order it reports them, with their items
Servers ==
    UNION { UNION { { [l \in 1..Len(sizes) |->
                        [name |-> LibNames[l],
                         items |-> [i \in 1..sizes[l] |-> flat[Offset(sizes, l) + i]]]] :
                        flat \in [1..n -> RawKinds] } :
                    sizes \in { z \in UNION {[1..k -> 0..n] : k \in 0..MaxLibs} :
                                  SumSeq(z) = n /\ Weight(z) <= MaxItems } } :
            n \in 0..MaxItems }

ServerNames(server) == [l \in 1..Len(server) |-> server[l].name]

\* what the identity probe of the constructor ends in: a 200, another status,
\* or an exception of request_with_retry
ProbeOutcomes == {"ok", "non200", "raise"}

\* the constructor returns unless the probe is not a 200
Connected(probe) == probe = "ok"

\* what fetching the items of a library ends in
ListingOutcomes == {"ok", "timeout", "non200", "raise"}

\* get_library_items: the items, or [] for a library the server does not
\* report and for every failure
GetLibraryItemsMut(server, library_name, outcome) ==
    IF \E l \in 1..Len(server) : server[l].name = library_name
    THEN server[CHOOSE l \in 1..Len(server) : server[l].name = library_name].items
    ELSE <<>>
GetLibraryItems(server, library_name, outcome) ==
    IF outcome = "ok" /\ \E l \in 1..Len(server) : server[l].name = library_name
    THEN server[CHOOSE l \in 1..Len(server) : server[l].name = library_name].items
    ELSE <<>>

\* `if not library_names`: the libraries get_libraries reports ({} when it
\* fails), else the names given
SelectLibraries(library_names, server, libs_ok) ==
    IF library_names = <<>>
    THEN (IF libs_ok THEN ServerNames(server) ELSE <<>>)
    ELSE library_names

\* what the stat of Path.exists() ends in: success, no such file, or another
\* OSError, which Path.exists() lets through (permission denied on a
\* directory of the path, for one)
StatOutcomes == {"exists", "absent", "raises"}

Raised == [raised |-> TRUE, exists |-> FALSE, file_path |-> "", reason |-> ""]
Returns(exists, file_path, reason) ==
    [raised |-> FALSE, exists |-> exists, file_path |-> file_path, reason |-> reason]

\* the try block of verify_file_exists.  item.get raises on an item that is
\* not a dict, `'Part' not in media` and `.get('file')` on an entry that is
\* neither a dict nor a container
VerifyTry(item, on_disk) ==
    IF Has(item, "notadict") THEN Raised
    ELSE IF Get(item, "type", "unknown") = "show" THEN
        IF Has(item, "leafCount") /\ item.leafCount > 0
        THEN Returns(TRUE, "TV Show (multiple episodes)", "OK")
        ELSE Returns(FALSE, "", "No episodes found")
    ELSE IF ~Has(item, "Media") \/ item.Media = <<>>
         THEN Returns(FALSE, "", "No media information")
    ELSE IF Has(item.Media[1], "notadict") THEN Raised
    ELSE IF ~Has(item.Media[1], "Part") \/ item.Media[1].Part = <<>>
         THEN Returns(FALSE, "", "No part information")
    ELSE IF Has(item.Media[1].Part[1], "notadict") THEN Raised
    ELSE LET file_path == Get(item.Media[1].Part[1], "file", "") IN
         IF file_path = ""
         THEN Returns(FALSE, "", "No file path in metadata")
         ELSE IF on_disk = "raises" THEN Raised
         ELSE IF on_disk = "exists"
         THEN Returns(TRUE, file_path, "OK")
         ELSE Returns(FALSE, file_path, "File not found on disk")

\* verify_file_exists: the try block, and `except Exception` around all of it
VerifyFileExistsMut(item, on_disk) == VerifyTry(item, on_disk)
VerifyFileExists(item, on_disk) ==
    LET r == VerifyTry(item, on_disk) IN
    IF r.raised THEN Returns(FALSE, "", "Error checking file") ELSE r

\* the value the Guid loop leaves under a key: that of the last entry of the
\* scheme ('tvdb' is tested only when 'tmdb' is not in the id)
RECURSIVE LastOf(_, _)
LastOf(guids, scheme) ==
    IF guids = <<>> THEN None
    ELSE LET later == LastOf(Tail(guids), scheme) IN
         IF later # None THEN later
         ELSE IF Head(guids).scheme = scheme THEN Some(Head(guids).value) ELSE None

Opt(key, opt) == IF opt = None THEN EmptyDict ELSE (key :> opt[1])

\* the try block of one raw item: whether it raises, the counter of its type
\* ("movies", "shows" or "none", incremented before anything can raise except
\* for an item that is not a dict), the record, and the file check.  year,
\* duration and contentRating are copied as they are and left out.
ProcessRaw(item, verify_files, on_disk) ==
    IF Has(item, "notadict")
    THEN [raised |-> TRUE, counted |-> "none", record |-> EmptyDict, exists |-> FALSE]
    ELSE
    LET type == Get(item, "type", "unknown")
        counted == IF type = "movie" THEN "movies"
                   ELSE IF type = "show" THEN "shows" ELSE "none"
        guids == Get(item, "Guid", <<>>)
        bad_guid == \E i \in 1..Len(guids) : Has(guids[i], "notadict")
        tmdb == IF bad_guid THEN None ELSE LastOf(guids, "tmdb")
        tvdb == IF bad_guid THEN None ELSE LastOf(guids, "tvdb")
        check == VerifyFileExists(item, on_disk)
        record ==
            [title |-> Get(item, "title", "Unknown"), type |-> type,
             ratingKey |-> Get(item, "ratingKey", "")]
            @@ Opt("tmdb_id", tmdb) @@ Opt("tvdb_id", tvdb)
            @@ (IF type = "show"
                THEN [seasons |-> Get(item, "childCount", 0),
                      episodes |-> Get(item, "leafCount", 0)]
                ELSE EmptyDict)
            @@ (IF verify_files
                THEN [file_path |-> check.file_path, file_exists |-> check.exists,
                      file_status |-> check.reason]
                ELSE EmptyDict)
    IN IF bad_guid \/ (tmdb = None /\ type = "movie" /\ ~Has(item, "title"))
       THEN [raised |-> TRUE, counted |-> counted, record |-> EmptyDict, exists |-> FALSE]
       ELSE [raised |-> FALSE, counted |-> counted, record |-> record,
             exists |-> check.exists]

ExportStats ==
    [total_items |-> 0, verified_items |-> 0, missing_files |-> 0, errors |-> 0,
     movies |-> 0, shows |-> 0]

Plus(st, field, n) == [st EXCEPT ![field] = @ + n]

\* the counters after one raw item
CountItemMut(st, r, verify_files) ==
    LET typed == IF r.counted = "none" THEN st ELSE Plus(st, r.counted, 1) IN
    IF r.raised THEN typed
    ELSE LET checked == IF ~verify_files THEN typed
                        ELSE IF r.exists THEN Plus(typed, "verified_items", 1)
                        ELSE Plus(typed, "missing_files", 1)
         IN Plus(checked, "total_items", 1)
CountItem(st, r, verify_files) ==
    LET typed == IF r.counted = "none" THEN st ELSE Plus(st, r.counted, 1) IN
    IF r.raised THEN Plus(typed, "errors", 1)
    ELSE LET checked == IF ~verify_files THEN typed
                        ELSE IF r.exists THEN Plus(typed, "verified_items", 1)
                        ELSE Plus(typed, "missing_files", 1)
         IN Plus(checked, "total_items", 1)

\* the run before main() builds the connector.  todo: the library names the
\* loop has not reached; items, item_no: the raw items of the library being
\* exported and how many are done; listing, processed, appended: history (the
\* outcome of each listing, the raw items handled, those that gave a record);
\* snapshot: the file, "none" while there is none; exit_status: -1 while the
\* process runs; result: what run_backup returns, "pending" before it does;
\* get_libraries: whether export_library asked for the libraries and got them
\* ("none" when the names were given)
ExportStart ==
    [pc |-> "start", todo |-> <<>>, lib_name |-> "", items |-> <<>>, item_no |-> 0,
     library_backup |-> <<>>, libraries_data |-> EmptyDict, stats |-> ExportStats,
     listing |-> EmptyDict, processed |-> 0, appended |-> 0,
     get_libraries |-> "none", snapshot |-> "none", write |-> "none", exit_status |-> -1, result |-> "pending"]

ArgLibraries ==
    { <<>>, <<LibNames[1]>>, <<LibNames[2], LibNames[1]>>, <<LibNames[3]>>,
      <<LibNames[1], LibNames[1]>> }

InitExport ==
    /\ RestoreIdle
    /\ MoreIdle
    /\ CleanupIdle
    /\ SnapshotIdle
    /\ procs = <<>>
    /\ export_args \in
          [server : Servers, probe : ProbeOutcomes, library_names : ArgLibraries,
           skip_libraries : {{}, {LibNames[2]}}, verify_files : BOOLEAN]
    /\ ex = ExportStart

\* main() builds the connector: a probe that is not a 200 ends the process
\* with status 1
Connect ==
    /\ ex.pc = "start"
    /\ ex' = IF Connected(export_args.probe)
             THEN [ex EXCEPT !.pc = "select"]
             ELSE [ex EXCEPT !.pc = "exited", !.exit_status = 1]
    /\ UNCHANGED << export_args, restore_vars, cleanup_vars, procs, snapshot_vars, more_vars >>

\* the fields after libraries_data[lib_name] = library_backup
StoreLibrary(st) ==
    [st EXCEPT !.libraries_data = SetKey(@, st.lib_name, st.library_backup),
               !.library_backup = <<>>, !.items = <<>>, !.item_no = 0,
               !.pc = "fetch"]

\* export_library starts: the libraries to go through
SelectLibs ==
    /\ ex.pc = "select"
    /\ \E libs_ok \in BOOLEAN :
          ex' = [ex EXCEPT !.pc = "fetch",
                           !.todo = SelectLibraries(export_args.library_names,
                                                    export_args.server, libs_ok),
                           !.get_libraries =
                               IF export_args.library_names # <<>> THEN "none"
                               ELSE IF libs_ok THEN "ok" ELSE "failed"]
    /\ UNCHANGED << export_args, restore_vars, cleanup_vars, procs, snapshot_vars, more_vars >>

\* if lib_name in skip_libraries
InSkipListMut(lib_name, skip_libraries) == FALSE
InSkipList(lib_name, skip_libraries) == lib_name \in skip_libraries

\* the head of the library loop: a library of the skip list is passed over,
\* the items of any other are fetched
FetchLibrary ==
    /\ ex.pc = "fetch"
    /\ ex.todo # <<>>
    /\ LET name == Head(ex.todo) IN
       IF InSkipList(name, export_args.skip_libraries)
       THEN ex' = [ex EXCEPT !.todo = Tail(@)]
       ELSE \E outcome \in ListingOutcomes :
              LET got == GetLibraryItems(export_args.server, name, outcome)
                  st == [ex EXCEPT !.todo = Tail(@), !.lib_name = name,
                                   !.items = got, !.item_no = 0,
                                   !.library_backup = <<>>,
                                   !.listing = SetKey(@, name, outcome),
                                   !.pc = "items"]
              IN ex' = IF got = <<>> THEN StoreLibrary(st) ELSE st
    /\ UNCHANGED << export_args, restore_vars, cleanup_vars, procs, snapshot_vars, more_vars >>

\* one raw item; after the last one the list is stored under the library name
ProcessItem ==
    /\ ex.pc = "items"
    /\ \E on_disk \in StatOutcomes :
          LET r == ProcessRaw(ex.items[ex.item_no + 1], export_args.verify_files, on_disk)
              st == [ex EXCEPT
                       !.item_no = @ + 1,
                       !.processed = @ + 1,
                       !.appended = IF r.raised THEN @ ELSE @ + 1,
                       !.library_backup = IF r.raised THEN @ ELSE Append(@, r.record),
                       !.stats = CountItem(@, r, export_args.verify_files)]
          IN ex' = IF st.item_no = Len(st.items) THEN StoreLibrary(st) ELSE st
    /\ UNCHANGED << export_args, restore_vars, cleanup_vars, procs, snapshot_vars, more_vars >>

\* the file is written twice (without and with the checksum); a failure is
\* logged and the statistics are returned all the same, and main() ends
\* normally.  "unwritable": mkdir or the first open raised, there is no file;
\* "partial": a write raised after the file was opened
WriteBackup ==
    /\ ex.pc = "fetch"
    /\ ex.todo = <<>>
    /\ \E write \in {"ok", "unwritable", "partial"} :
          ex' = [ex EXCEPT
                   !.pc = "exited",
                   !.write = write,
                   !.snapshot = IF write = "ok" THEN "whole"
                                ELSE IF write = "partial" THEN "partial" ELSE "none",
                   !.exit_status = 0]
    /\ UNCHANGED << export_args, restore_vars, cleanup_vars, procs, snapshot_vars, more_vars >>

\* run_backup after the process ended: status 0 gives the path unless
\* backup_file.stat() raises, anything else gives None
RunBackupResult(exit_status, snapshot) ==
    IF exit_status = 0 /\ snapshot # "none" THEN "backup_file" ELSE "None"

SchedulerReturn ==
    /\ ex.pc = "exited"
    /\ ex' = [ex EXCEPT !.pc = "returned",
                        !.result = RunBackupResult(ex.exit_status, ex.snapshot)]
    /\ UNCHANGED << export_args, restore_vars, cleanup_vars, procs, snapshot_vars, more_vars >>

NextExport ==
    Connect \/ SelectLibs \/ FetchLibrary \/ ProcessItem \/ WriteBackup \/ SchedulerReturn

SpecExport == InitExport /\ [][NextExport]_vars

\* --------------------------------------------------- verify_file_exists
\* raw items for the file check: with and without a type, an episode count
\* and a Media list, the list empty, with an entry that is not a dict, without
\* Part, with an empty Part, a part that is not a dict, that has no file, an
\* empty file, a file
MediaShapes ==
    { <<>>, <<NotADict>>, << [id |-> 1] >>, << [Part |-> <<>>] >>,
      << [Part |-> <<NotADict>>] >>, << [Part |-> << [size |-> 1] >>] >>,
      MediaOf(""), MediaOf("/m/a.mkv") }

VerifyItems ==
    { t @@ c @@ m :
        t \in {EmptyDict} \cup { [type |-> x] : x \in {"movie", "show", "artist"} },
        c \in {EmptyDict} \cup { [leafCount |-> n] : n \in {0, MaxEpisodes} },
        m \in {EmptyDict} \cup { [Media |-> x] : x \in MediaShapes } }
    \cup {NotADict}

NotVerified == [raised |-> FALSE, exists |-> FALSE, file_path |-> "", reason |-> "none"]

InitVerify ==
    /\ RestoreIdle
    /\ CleanupIdle
    /\ SnapshotIdle
    /\ ExportIdle
    /\ procs = <<>>
    /\ FullIdle
    /\ FilesIdle
    /\ RetryIdle
    /\ AnalyzeIdle
    /\ ReviewIdle
    /\ SelectedIdle
    /\ RunsIdle
    /\ \E item \in VerifyItems, on_disk \in StatOutcomes :
          vf = [item |-> item, on_disk |-> on_disk, pc |-> "call", result |-> NotVerified]

\* exists, file_path, reason = self.verify_file_exists(item)
Verify ==
    /\ vf.pc = "call"
    /\ vf' = [vf EXCEPT !.pc = "returned",
                        !.result = VerifyFileExists(vf.item, vf.on_disk)]
    /\ UNCHANGED << old_vars, full, io, rq, an, rv, sl, mr >>

NextVerify == Verify

SpecVerify == InitVerify /\ [][NextVerify]_vars

\* ------------------------------------------------------------ full mode
\* restore_full of ui.py calls restore_batch, which runs the restore as a
\* child process with --batch-limit and --progress <stem>_progress.json, and
\* goes on while the child succeeds and prints the batch-limit line.

\* for i in range(100)
FullBatches == 100

\* a snapshot of one library of n movies, all with a file path, a title and a
\* tmdb id
FullSnapshot(n) ==
    MakeSnapshot([k \in 1..n |-> <<TRUE, Movie("/m/a.mkv", FALSE, "111")>>], <<n>>)

\* the create-request is accepted
Created == [raised |-> FALSE, status |-> 201, csrf |-> FALSE]

\* no file is on disk, the server has no episode of any show, and (no answers
\* given) every create-request is accepted
NothingThere ==
    [on_disk |-> FALSE, live |-> [kind |-> "ok", leafCount |-> 0], found |-> {},
     answers |-> EmptyDict, log |-> EmptyDict]

\* what the service answers to the create-requests for the item at pos: the
\* pair given for it, or 'accepted' twice
AnswersAt(answers, pos) ==
    IF pos \in DOMAIN answers THEN answers[pos] ELSE <<Created, Created>>

\* the two for loops of restore_to_overseerr from position st.pos on.
\* st.on_disk and st.live are what the disk and the media server answer,
\* st.answers what the request service answers; st.found collects the
\* positions counted as missing, st.log how each position ended
RECURSIVE RestoreLoop(_, _, _)
RestoreLoop(bd, limit, st) ==
    IF st.pos = <<0, 0>> THEN st
    ELSE
    LET l == st.pos[1]
        i == st.pos[2]
        item == bd[l].items[i]
        np == NextPos(bd, l, i)
        r == Reconcile(item, bd[l].name, st.pd, st.on_disk, st.live)
        Noted(base, o) == [base EXCEPT !.log = SetKey(@, st.pos, o)]
        found == [st EXCEPT !.stats = Bump(st.stats, "total_missing"),
                            !.found = @ \cup {st.pos}]
        ans == AnswersAt(st.answers, st.pos)
        s == SubmitItem(item, ans[1], ans[2])
    IN CASE r.outcome = "raise" -> Noted([st EXCEPT !.raised = TRUE], "raise")
         [] r.outcome = "exists" ->
              RestoreLoop(bd, limit,
                  Noted([st EXCEPT !.stats = Bump(st.stats, "already_exist"), !.pos = np],
                        "exists"))
         [] r.outcome = "missing" ->
              IF BatchLimitHit(limit, st.created)
              THEN Noted([found EXCEPT !.stats.batch_limit_reached = TRUE], "limit")
              ELSE CASE s.outcome = "raise" -> Noted([found EXCEPT !.raised = TRUE], "raise")
                     [] s.outcome = "created" ->
                          RestoreLoop(bd, limit,
                              Noted([found EXCEPT
                                  !.stats = Bump(found.stats, "requests_created"),
                                  !.created = @ + 1,
                                  !.pd = IF st.progress_file
                                         THEN RecordSubmitted(@, ItemId(bd[l].name, item),
                                                              item, st.now)
                                         ELSE @,
                                  !.pos = np], "created"))
                     [] s.outcome = "error" ->
                          RestoreLoop(bd, limit,
                              Noted([found EXCEPT !.stats = Bump(found.stats, "errors"),
                                                  !.pos = np], "error"))
                     [] OTHER ->
                          RestoreLoop(bd, limit,
                              Noted([found EXCEPT
                                  !.stats = Bump(found.stats, "requests_skipped"),
                                  !.pos = np], s.outcome))
         [] OTHER ->
              RestoreLoop(bd, limit,
                  Noted([st EXCEPT !.stats = Bump(st.stats, "requests_skipped"), !.pos = np],
                        r.outcome))

\* the child process of restore_batch: main() probes the media server, runs
\* restore_to_overseerr and prints the statistics.  file: the progress file
\* after the run; returncode; limit_line: the output has the line
\* "Batch limit reached - more files to process"
ChildProcess(bd, limit, file, probe_ok, now) ==
    IF ~Connected(IF probe_ok THEN "ok" ELSE "refused")
    THEN [file |-> file, returncode |-> 1, limit_line |-> FALSE]
    ELSE
    LET ld == LoadProgress(TRUE, file, TRUE)
        st == RestoreLoop(bd, limit,
                  [pos |-> NextPos(bd, 0, 0), pd |-> ld.pd, stats |-> InitStats,
                   created |-> 0, raised |-> FALSE, progress_file |-> TRUE,
                   now |-> now] @@ NothingThere)
    IN IF st.raised
       THEN [file |-> file, returncode |-> 1, limit_line |-> FALSE]
       ELSE [file |-> Overwrite(file, SetKey(st.pd, "last_updated", now)),
             returncode |-> 0, limit_line |-> st.stats.batch_limit_reached]

\* if not batch_data['success'] or 'Batch limit reached' not in output: break
FullBreaks(success, limit_line) == ~success \/ ~limit_line

InitFull ==
    /\ RestoreIdle
    /\ CleanupIdle
    /\ SnapshotIdle
    /\ ExportIdle
    /\ procs = <<>>
    /\ FilesIdle
    /\ RetryIdle
    /\ AnalyzeIdle
    /\ VerifyIdle
    /\ ReviewIdle
    /\ SelectedIdle
    /\ RunsIdle
    /\ \E n \in 0..MaxFullItems, limit \in 1..(MaxBatch + 1) :
          full = [backup_data |-> FullSnapshot(n), batch_limit |-> limit,
                  progress |-> None, i |-> 0, pc |-> "loop", failed |-> FALSE]

\* one pass of the loop of restore_full
FullBatch ==
    /\ full.pc = "loop"
    /\ \E probe_ok \in BOOLEAN :
          LET child == ChildProcess(full.backup_data, Some(full.batch_limit),
                                    full.progress, probe_ok, full.i + 1)
              success == child.returncode = 0
              stop == FullBreaks(success, child.limit_line) \/ full.i + 1 = FullBatches
          IN full' = [full EXCEPT !.progress = child.file,
                                  !.i = @ + 1,
                                  !.failed = ~success,
                                  !.pc = IF stop THEN "returned" ELSE "loop"]
    /\ UNCHANGED << old_vars, io, rq, an, vf, rv, sl, mr >>

NextFull == FullBatch

SpecFull == InitFull /\ [][NextFull]_vars

\* ------------------------------------------------ the files of a restore
\* The disk maps a path to the content of the file: a JSON document (a dict),
\* plain or gzip-compressed, or the rest of a write that failed.
PlainFile(doc) == [kind |-> "json", gz |-> FALSE, doc |-> doc]
GzipFile(doc) == [kind |-> "json", gz |-> TRUE, doc |-> doc]
TruncatedFile == [kind |-> "truncated", gz |-> FALSE, doc |-> EmptyDict]

\* backup_path.suffix == '.gz' or str(backup_path).endswith('.json.gz')
IsGzPath(path) == path = "s.json.gz"

\* the snapshot export_library (or the compressing backup of ui.py) left
SnapshotDoc(n, checksummed) ==
    IF checksummed THEN [libraries |-> FullSnapshot(n), checksum |-> "sha"]
    ELSE [libraries |-> FullSnapshot(n)]

ReadJsonMut(disk, path, as_gzip) ==
    IF path \notin DOMAIN disk THEN None ELSE Some(disk[path].doc)

\* with open(path, 'r') / gzip.open(path, 'rt'): json.load(f).  None when the
\* open or the parse raises
ReadJson(disk, path, as_gzip) ==
    IF path \notin DOMAIN disk THEN None
    ELSE IF disk[path].kind = "json" /\ disk[path].gz = as_gzip THEN Some(disk[path].doc)
    ELSE None

\* with open(progress_path, 'w') as f: json.dump(progress_data, f).  how:
\* "saved"; "failed" (open raises); "partial" (the dump raises after open
\* has truncated the file)
WriteJson(disk, path, doc, how) ==
    IF how = "failed" THEN disk
    ELSE IF how = "partial" THEN Touch(disk, path, TruncatedFile)
    ELSE Touch(disk, path, PlainFile(doc))

\* what may be found under the snapshot's path: the snapshot ("good"), the
\* rest of a write that failed ("truncated"), a snapshot whose compression
\* does not go with the name ("mislabelled"), nothing ("absent")
SnapshotStates == {"good", "truncated", "mislabelled", "absent"}

\* ledgers a progress file may hold before the run
StoredLedgers ==
    { EmptyDict,
      RecordSubmitted(EmptyDict, <<"Movies", 1>>, Movie("/m/a.mkv", FALSE, "111"), 0) }

InitFiles ==
    /\ RestoreIdle
    /\ CleanupIdle
    /\ SnapshotIdle
    /\ ExportIdle
    /\ procs = <<>>
    /\ FullIdle
    /\ RetryIdle
    /\ AnalyzeIdle
    /\ VerifyIdle
    /\ ReviewIdle
    /\ SelectedIdle
    /\ RunsIdle
    /\ \E backup_file \in {"s.json", "s.json.gz"}, n \in 0..MaxItems,
          checksummed \in BOOLEAN, limit \in {None, Some(MaxBatch)} :
       \E progress \in {None, Some("p.json"), Some(backup_file)},
          ledger \in {None} \cup { Some(d) : d \in StoredLedgers },
          state \in SnapshotStates :
          LET doc == SnapshotDoc(n, checksummed)
              content == IF state = "truncated" THEN TruncatedFile
                         ELSE IF IsGzPath(backup_file) <=> (state = "good")
                         THEN GzipFile(doc)
                         ELSE PlainFile(doc)
              snapshot == IF state = "absent" THEN EmptyDict
                          ELSE (backup_file :> content)
              disk == IF ledger = None THEN snapshot
                      ELSE Touch(snapshot, "p.json", PlainFile(ledger[1]))
          IN io = [backup_file |-> backup_file, progress_file |-> progress,
                   batch_limit |-> limit, disk |-> disk, before |-> disk,
                   pc |-> "load", backup_data |-> EmptyDict,
                   progress_data |-> EmptyDict, stats |-> EmptyDict,
                   log |-> EmptyDict]

\* lines 391-402: the snapshot is opened for reading
LoadBackup ==
    /\ io.pc = "load"
    /\ LET got == ReadJson(io.disk, io.backup_file, IsGzPath(io.backup_file)) IN
       io' = IF got = None THEN [io EXCEPT !.pc = "returned"]
             ELSE [io EXCEPT !.pc = "verify", !.backup_data = got[1]]
    /\ UNCHANGED << old_vars, full, rq, an, vf, rv, sl, mr >>

\* lines 404-423: the copy without 'checksum' goes into a temporary file of
\* a new name, which is hashed and unlinked; a write that raises leaves the
\* temporary file behind and ends the call
VerifyChecksum ==
    /\ io.pc = "verify"
    /\ \E tmp_ok \in BOOLEAN :
          io' = IF ~Has(io.backup_data, "checksum") THEN [io EXCEPT !.pc = "ledger"]
                ELSE IF tmp_ok THEN [io EXCEPT !.pc = "ledger"]
                ELSE [io EXCEPT !.pc = "raised",
                                !.disk = Touch(@, "tmp.json", TruncatedFile)]
    /\ UNCHANGED << old_vars, full, rq, an, vf, rv, sl, mr >>

\* lines 425-438
LoadLedger ==
    /\ io.pc = "ledger"
    /\ LET given == io.progress_file # None
           got == IF given THEN ReadJson(io.disk, io.progress_file[1], FALSE) ELSE None
           file == IF given /\ io.progress_file[1] \in DOMAIN io.disk
                   THEN Some(IF got = None THEN EmptyDict ELSE got[1]) ELSE None
       IN io' = [io EXCEPT !.pc = "loop",
                           !.progress_data = LoadProgress(given, file, got # None).pd]
    /\ UNCHANGED << old_vars, full, rq, an, vf, rv, sl, mr >>

\* lines 472-650: the loops read the disk (stat) and write no file
RunLoops ==
    /\ io.pc = "loop"
    /\ LET bd == Get(io.backup_data, "libraries", <<>>)
           st == RestoreLoop(bd, io.batch_limit,
                     [pos |-> NextPos(bd, 0, 0), pd |-> io.progress_data,
                      stats |-> InitStats, created |-> 0, raised |-> FALSE,
                      progress_file |-> io.progress_file # None, now |-> 1]
                     @@ NothingThere)
       IN io' = [io EXCEPT !.pc = IF st.raised THEN "raised" ELSE "save",
                           !.progress_data = st.pd,
                           !.stats = st.stats,
                           !.log = st.log]
    /\ UNCHANGED << old_vars, full, rq, an, vf, rv, sl, mr >>

\* lines 652-661
SaveLedger ==
    /\ io.pc = "save"
    /\ IF io.progress_file = None THEN io' = [io EXCEPT !.pc = "returned"]
       ELSE \E how \in {"saved", "failed", "partial"} :
              LET pd == SetKey(io.progress_data, "last_updated", 1) IN
              io' = [io EXCEPT !.pc = "returned", !.progress_data = pd,
                               !.disk = WriteJson(@, io.progress_file[1], pd, how)]
    /\ UNCHANGED << old_vars, full, rq, an, vf, rv, sl, mr >>

NextFiles == LoadBackup \/ VerifyChecksum \/ LoadLedger \/ RunLoops \/ SaveLedger

SpecFiles == InitFiles /\ [][NextFiles]_vars

\* ------------------------------------------------------ request_with_retry
MAX_RETRIES == 3

\* int(response.headers.get('Retry-After', 60))
DefaultRetryAfter == 60

\* wait_time = 5 * (attempt + 1), attempt counted from 0
BackoffStep == 5
BackoffMut(attempt) == BackoffStep * attempt
Backoff(attempt) == BackoffStep * (attempt + 1)

\* the Retry-After header of a response: absent, a number of seconds, an
\* HTTP date
RetryAfterHeaders == {"absent", "2", "date"}

\* what one call of session.get / session.post ends in
Response(status, header) == [kind |-> "response", status |-> status, retry_after |-> header]
Raises(exc) == [kind |-> exc, status |-> 0, retry_after |-> "absent"]

AttemptOutcomes ==
    { Response(st, "absent") : st \in {200, 403, 500} }
    \cup { Response(429, h) : h \in RetryAfterHeaders }
    \cup { Raises(e) : e \in {"Timeout", "ConnectionError", "TooManyRedirects"} }

IsTransient(o) == o.kind \in {"Timeout", "ConnectionError"}
IsRateLimited(o) == o.kind = "response" /\ o.status = 429

\* the body of the for loop for the attempt numbered rq.attempt, on outcome o
AttemptStep(st, o) ==
    LET seen == [st EXCEPT !.outcomes = Append(@, o), !.attempt = @ + 1] IN
    IF IsRateLimited(o) THEN
        IF o.retry_after = "date"
        THEN [seen EXCEPT !.pc = "raised", !.raised = "ValueError"]
        ELSE [seen EXCEPT !.response = Some(o),
                          !.slept = Append(@, IF o.retry_after = "absent"
                                              THEN DefaultRetryAfter ELSE 2),
                          !.pc = IF st.attempt + 1 < st.max_retries
                                 THEN "try" ELSE "after"]
    ELSE IF o.kind = "response" THEN
        [seen EXCEPT !.response = Some(o), !.pc = "returned", !.result = Some(o)]
    ELSE IF IsTransient(o) THEN
        IF st.attempt < st.max_retries - 1
        THEN [seen EXCEPT !.last_exception = Some(o.kind),
                          !.slept = Append(@, Backoff(st.attempt))]
        ELSE [seen EXCEPT !.last_exception = Some(o.kind),
                          !.pc = "raised", !.raised = o.kind]
    ELSE [seen EXCEPT !.pc = "raised", !.raised = o.kind]

InitRetry ==
    /\ RestoreIdle
    /\ CleanupIdle
    /\ SnapshotIdle
    /\ ExportIdle
    /\ procs = <<>>
    /\ FullIdle
    /\ FilesIdle
    /\ AnalyzeIdle
    /\ VerifyIdle
    /\ ReviewIdle
    /\ SelectedIdle
    /\ RunsIdle
    /\ \E max_retries \in 1..MAX_RETRIES :
          rq = [max_retries |-> max_retries, attempt |-> 0, pc |-> "try",
                last_exception |-> None, response |-> None, slept |-> <<>>,
                outcomes |-> <<>>, raised |-> "none", result |-> None]

\* one pass of `for attempt in range(max_retries)`
Attempt ==
    /\ rq.pc = "try"
    /\ \E o \in AttemptOutcomes : rq' = AttemptStep(rq, o)
    /\ UNCHANGED << old_vars, full, io, an, vf, rv, sl, mr >>

\* lines 109-112: the loop ended without a return and without a raise
AfterLoop ==
    /\ rq.pc = "after"
    /\ rq' = IF rq.last_exception # None
             THEN [rq EXCEPT !.pc = "raised", !.raised = rq.last_exception[1]]
             ELSE [rq EXCEPT !.pc = "returned", !.result = rq.response]
    /\ UNCHANGED << old_vars, full, io, an, vf, rv, sl, mr >>

NextRetry == Attempt \/ AfterLoop

SpecRetry == InitRetry /\ [][NextRetry]_vars

\* --------------------------------------- the create-request of one item
\* Lines 590-647 for one missing item: the post through request_with_retry,
\* its re-send with the bypass headers after a CSRF 403, and what the item is
\* counted as.  rq holds the call in progress; rq.served lists, for every
\* attempt of either call, whether the service created a request for it.

\* what the service did with an attempt that ended in o for the client: it
\* created the request when it answered 200, 201 or 202; it did not when it
\* answered anything else; a timeout or a connection error ends the attempt
\* for the client before or after the service acted on it
ServiceCreated(o) ==
    IF o.kind = "response" THEN { o.status \in {200, 201, 202} }
    ELSE IF IsTransient(o) THEN BOOLEAN
    ELSE {FALSE}

InitPost ==
    /\ RestoreIdle
    /\ CleanupIdle
    /\ SnapshotIdle
    /\ ExportIdle
    /\ procs = <<>>
    /\ FullIdle
    /\ FilesIdle
    /\ AnalyzeIdle
    /\ VerifyIdle
    /\ ReviewIdle
    /\ SelectedIdle
    /\ RunsIdle
    /\ rq = [max_retries |-> MAX_RETRIES, attempt |-> 0, pc |-> "try",
             last_exception |-> None, response |-> None, slept |-> <<>>,
             outcomes |-> <<>>, raised |-> "none", result |-> None,
             call |-> 1, csrf |-> FALSE, served |-> <<>>, counted |-> "none"]

\* one attempt of the post; csrf: the body of a 403 answer mentions csrf
PostAttempt ==
    /\ rq.pc = "try"
    /\ \E o \in AttemptOutcomes : \E created \in ServiceCreated(o) :
       \E csrf \in IF o.kind = "response" /\ o.status = 403 THEN BOOLEAN ELSE {FALSE} :
          rq' = [AttemptStep(rq, o) EXCEPT
                    !.csrf = csrf,
                    !.served = Append(@, [call |-> rq.call, kind |-> o.kind,
                                          created |-> created])]
    /\ UNCHANGED << old_vars, full, io, an, vf, rv, sl, mr >>

\* lines 109-112 of the call in progress
PostAfterLoop ==
    /\ rq.pc = "after"
    /\ Has(rq, "call")
    /\ rq' = IF rq.last_exception # None
             THEN [rq EXCEPT !.pc = "raised", !.raised = rq.last_exception[1]]
             ELSE [rq EXCEPT !.pc = "returned", !.result = rq.response]
    /\ UNCHANGED << old_vars, full, io, an, vf, rv, sl, mr >>

\* lines 596-643: the call returned a response
PostReturned ==
    /\ rq.pc = "returned"
    /\ Has(rq, "call")
    /\ LET resp == [status |-> rq.result[1].status, csrf |-> rq.csrf] IN
       rq' = IF rq.call = 1 /\ IsCsrfRejection(resp)
             THEN [rq EXCEPT !.call = 2, !.attempt = 0, !.pc = "try",
                             !.last_exception = None, !.response = None,
                             !.slept = <<>>, !.outcomes = <<>>,
                             !.result = None, !.csrf = FALSE]
             ELSE [rq EXCEPT !.pc = "done",
                             !.counted = IF IsCreated(resp.status)
                                         THEN "requests_created"
                                         ELSE "requests_skipped"]
    /\ UNCHANGED << old_vars, full, io, an, vf, rv, sl, mr >>

\* lines 645-647: the call raised
PostRaised ==
    /\ rq.pc = "raised"
    /\ Has(rq, "call")
    /\ rq' = [rq EXCEPT !.pc = "done", !.counted = "errors"]
    /\ UNCHANGED << old_vars, full, io, an, vf, rv, sl, mr >>

NextPost == PostAttempt \/ PostAfterLoop \/ PostReturned \/ PostRaised

SpecPost == InitPost /\ [][NextPost]_vars

\* ------------------------------------------------- analyze_missing_items
\* A show with detailed tracking stores 'season_details': its seasons in
\* stored order, each with 'season_num' and its 'episodes' in stored order,
\* each with 'episode_num', 'file_exists' and, if known, 'file_path'.

\* if len(missing_eps) <= 10
ListLimit == 10

EpisodePath(season_num, ep_num) == "/tv/s" \o ToString(season_num) \o "e" \o ToString(ep_num)

\* the seasons 1..Len(sizes) with sizes[s] episodes each; with_paths: the
\* episodes carry a file_path; flags: the stored file_exists per episode
DetailedShow(sizes, with_paths, flags) ==
    [type |-> "show", title |-> "Beta", detailed |-> TRUE,
     episodes |-> SumSeq(sizes),
     season_details |->
        [s \in 1..Len(sizes) |->
            [season_num |-> s,
             episodes |->
                [e \in 1..sizes[s] |->
                    IF with_paths
                    THEN [episode_num |-> e, file_path |-> EpisodePath(s, e),
                          file_exists |-> TRUE]
                    ELSE [episode_num |-> e, file_exists |-> flags[Offset(sizes, s) + e]]]]]]

SeasonSizes ==
    { sizes \in UNION { [1..k -> 0..MaxDetailedEpisodes] : k \in 1..2 } :
         SumSeq(sizes) <= MaxDetailedEpisodes }

\* format(n, '02d'): at least two digits
Pad2(n) == IF n >= 0 /\ n < 10 THEN "0" \o ToString(n) ELSE ToString(n)

\* f"S{season_num:02d}E{ep_num:02d}"
EpisodeId(season_num, ep_num) == "S" \o Pad2(season_num) \o "E" \o Pad2(ep_num)

\* ep_missing: the disk decides for an episode with a file_path, the stored
\* flag for one without
EpMissingMut(ep, disk) == ~Get(ep, "file_exists", TRUE)
EpMissing(ep, disk) ==
    LET file_path == Get(ep, "file_path", "") IN
    IF IsTruthyStr(file_path) THEN file_path \notin disk
    ELSE ~Get(ep, "file_exists", TRUE)

\* missing_eps after the two loops over the seasons and their episodes
MissingEps(season_details, disk) ==
    Flatten([s \in 1..Len(season_details) |->
        LET season == season_details[s]
            eps == Get(season, "episodes", <<>>)
            gone == SelectSeq([e \in 1..Len(eps) |-> e],
                              LAMBDA e : EpMissing(eps[e], disk))
        IN [j \in 1..Len(gone) |->
               EpisodeId(Get(season, "season_num", 0),
                         Get(eps[gone[j]], "episode_num", 0))]])

TotalEps(season_details) ==
    SumSeq([s \in 1..Len(season_details) |-> Len(Get(season_details[s], "episodes", <<>>))])

\* the reason text, by its parts
ReasonFor(missing_eps, total_eps) ==
    IF missing_eps = <<>> THEN [text |-> "all present", ids |-> <<>>, k |-> 0, of |-> total_eps]
    ELSE IF Len(missing_eps) <= ListLimit
    THEN [text |-> "Missing episodes", ids |-> missing_eps, k |-> Len(missing_eps), of |-> 0]
    ELSE [text |-> "Missing k/total episodes", ids |-> <<>>, k |-> Len(missing_eps),
          of |-> total_eps]

\* the show branch of analyze_missing_items
AnalyzeShow(item, disk) ==
    IF Get(item, "detailed", FALSE) /\ Has(item, "season_details") THEN
        LET missing_eps == MissingEps(item.season_details, disk) IN
        [is_missing |-> missing_eps # <<>>,
         reason |-> ReasonFor(missing_eps, TotalEps(item.season_details))]
    ELSE
        [is_missing |-> Get(item, "episodes", 0) = 0,
         reason |-> [text |-> "TV Show: seasons, episodes", ids |-> <<>>,
                     k |-> 0, of |-> Get(item, "episodes", 0)]]

\* the movie branch: the disk decides for a movie with a file_path (an
\* exception of the stat counts as missing), the stored flag for one without
AnalyzeMovie(item, on_disk) ==
    IF IsTruthyStr(Get(item, "file_path", "")) THEN ~on_disk
    ELSE ~Get(item, "file_exists", TRUE)

\* is_missing of one item; item['type'] raises for an item without a type
AnalyzeItem(item, on_disk, disk) ==
    IF ~Has(item, "type") THEN [raised |-> TRUE, is_missing |-> FALSE]
    ELSE IF item.type = "movie"
    THEN [raised |-> FALSE, is_missing |-> AnalyzeMovie(item, on_disk)]
    ELSE IF item.type = "show"
    THEN [raised |-> FALSE, is_missing |-> AnalyzeShow(item, disk).is_missing]
    ELSE [raised |-> FALSE, is_missing |-> FALSE]

InitAnalyze ==
    /\ RestoreIdle
    /\ CleanupIdle
    /\ SnapshotIdle
    /\ ExportIdle
    /\ procs = <<>>
    /\ FullIdle
    /\ FilesIdle
    /\ RetryIdle
    /\ VerifyIdle
    /\ ReviewIdle
    /\ SelectedIdle
    /\ RunsIdle
    /\ \/ \E sizes \in SeasonSizes :
          \E present \in [1..SumSeq(sizes) -> BOOLEAN], with_paths \in BOOLEAN :
             LET item == DetailedShow(sizes, with_paths, present)
                 disk == IF with_paths
                         THEN { EpisodePath(s, e) : s \in 1..Len(sizes), e \in 1..MaxDetailedEpisodes }
                              \cap { item.season_details[p[1]].episodes[p[2]].file_path :
                                       p \in { q \in (1..Len(sizes)) \X (1..MaxDetailedEpisodes) :
                                                 q[2] <= sizes[q[1]]
                                                 /\ present[Offset(sizes, q[1]) + q[2]] } }
                         ELSE {}
             IN an = [item |-> item, disk |-> disk, pc |-> "request", missing_items |-> <<>>]
       \/ \E eps \in 0..MaxEpisodes :
             an = [item |-> Show(eps, "603"), disk |-> {}, pc |-> "request",
                   missing_items |-> <<>>]

\* the analysis of a snapshot whose one library holds the item
AnalyzeMissingItems ==
    /\ an.pc = "request"
    /\ LET r == AnalyzeShow(an.item, an.disk) IN
       an' = [an EXCEPT !.pc = "done",
                        !.missing_items =
                            IF r.is_missing
                            THEN << [title |-> an.item.title, type |-> an.item.type,
                                     reason |-> r.reason] >>
                            ELSE <<>>]
    /\ UNCHANGED << old_vars, full, io, rq, vf, rv, sl, mr >>

NextAnalyze == AnalyzeMissingItems

SpecAnalyze == InitAnalyze /\ [][NextAnalyze]_vars

\* ------------------------------------------------ review against restore
\* The review of ui.py (get_missing_items) and a restore run without ledger
\* and without batch limit, on one snapshot, one state of the disk and one
\* answer of the media server.

\* stored items: those of ItemKinds, a movie as a backup without file
\* verification stores it, and shows with detailed tracking
ReviewKinds ==
    ItemKinds
    \cup { [type |-> "movie", title |-> "Alpha", tmdb_id |-> "111"],
           [type |-> "movie", title |-> "Alpha", tmdb_id |-> "111", file_path |-> "",
            file_exists |-> TRUE] }
    \cup { DetailedShow(<<MaxEpisodes>>, FALSE, flags) @@ [tmdb_id |-> "603"] :
             flags \in { [e \in 1..MaxEpisodes |-> TRUE],
                         [e \in 1..MaxEpisodes |-> e # 1] } }

ReviewSnapshots ==
    UNION { UNION { { MakeSnapshot(flat, sizes) :
                        flat \in [1..n -> { <<TRUE, r>> : r \in ReviewKinds }] } :
                    sizes \in { z \in UNION {[1..k -> 0..n] : k \in 1..MaxLibs} :
                                  SumSeq(z) = n /\ Weight(z) <= MaxItems } } :
            n \in 1..MaxItems }

\* analyze_missing_items: the positions appended to missing_items; the call
\* raises when an item has no type
ReviewMissing(bd, on_disk) ==
    LET res == [p \in Positions(bd) |->
                  AnalyzeItem(bd[p[1]].items[p[2]], on_disk, {})] IN
    IF \E p \in Positions(bd) : res[p].raised
    THEN [raised |-> TRUE, missing |-> {}]
    ELSE [raised |-> FALSE, missing |-> { p \in Positions(bd) : res[p].is_missing }]

InitReview ==
    /\ RestoreIdle
    /\ CleanupIdle
    /\ SnapshotIdle
    /\ ExportIdle
    /\ procs = <<>>
    /\ FullIdle
    /\ FilesIdle
    /\ RetryIdle
    /\ AnalyzeIdle
    /\ VerifyIdle
    /\ SelectedIdle
    /\ RunsIdle
    /\ \E bd \in ReviewSnapshots, on_disk \in BOOLEAN, live \in LiveOutcomes :
          rv = [backup_data |-> bd, on_disk |-> on_disk, live |-> live,
                review |-> "none", reviewed |-> {},
                restore |-> "none", counted |-> {}, total_missing |-> 0]

\* get_missing_items
Review ==
    /\ rv.review = "none"
    /\ LET r == ReviewMissing(rv.backup_data, rv.on_disk) IN
       rv' = [rv EXCEPT !.review = IF r.raised THEN "raised" ELSE "returned",
                        !.reviewed = r.missing]
    /\ UNCHANGED << old_vars, full, io, rq, an, vf, sl, mr >>

\* restore_to_overseerr without progress file and without batch limit
RestoreAll ==
    /\ rv.restore = "none"
    /\ LET bd == rv.backup_data
           st == RestoreLoop(bd, None,
                     [pos |-> NextPos(bd, 0, 0), pd |-> EmptyDict, stats |-> InitStats,
                      created |-> 0, raised |-> FALSE, progress_file |-> FALSE,
                      now |-> 1] @@ [NothingThere EXCEPT !.on_disk = rv.on_disk,
                                                          !.live = rv.live])
       IN rv' = [rv EXCEPT !.restore = IF st.raised THEN "raised" ELSE "returned",
                           !.counted = st.found,
                           !.total_missing = st.stats.total_missing]
    /\ UNCHANGED << old_vars, full, io, rq, an, vf, sl, mr >>

NextReview == Review \/ RestoreAll

SpecReview == InitReview /\ [][NextReview]_vars

\* ------------------------------------------------------ restore-selected
\* restore_selected of ui.py posts a create-request for each of the items the
\* browser sends back from the review list; restore runs on the same snapshot
\* keep the ledger <stem>_progress.json.

\* the entry of the review list for a stored item
MissingItem(item) ==
    [title |-> Get(item, "title", "Unknown"), type |-> item.type,
     tmdb_id |-> TmdbId(item)]

\* what session.post ends in: a status or an exception
SelectedAnswers ==
    { [raised |-> FALSE, status |-> st, csrf |-> FALSE] : st \in {201, 409, 500} }
    \cup { [raised |-> TRUE, status |-> 0, csrf |-> FALSE] }

\* the body of the loop of restore_selected for one entry
SelectedOutcome(entry, answer) ==
    IF ~IsTruthyStr(entry.tmdb_id) THEN "skipped"
    ELSE IF entry.tmdb_id \notin DOMAIN IntValue THEN "errors"
    ELSE IF answer.raised THEN "errors"
    ELSE IF answer.status \in {200, 201, 202} THEN "created"
    ELSE IF answer.status = 409 THEN "skipped"
    ELSE "errors"

InitSelected ==
    /\ RestoreIdle
    /\ CleanupIdle
    /\ SnapshotIdle
    /\ ExportIdle
    /\ procs = <<>>
    /\ FullIdle
    /\ FilesIdle
    /\ RetryIdle
    /\ AnalyzeIdle
    /\ VerifyIdle
    /\ ReviewIdle
    /\ RunsIdle
    /\ \E n \in 1..MaxItems :
          sl = [backup_data |-> FullSnapshot(n), progress |-> None,
                posts |-> [p \in Positions(FullSnapshot(n)) |-> 0],
                selected_ok |-> {}, ledger_ok |-> {}, ops |-> 0]

\* the review list is fetched, some of its entries are selected and posted;
\* no file is read or written
RestoreSelected ==
    /\ sl.ops < MaxOps
    /\ LET bd == sl.backup_data
           listed == ReviewMissing(bd, FALSE).missing
       IN \E selected \in SUBSET listed \ {{}} :
          \E answer \in [selected -> SelectedAnswers] :
             LET entry == [p \in selected |-> MissingItem(bd[p[1]].items[p[2]])]
                 sent == { p \in selected : entry[p].tmdb_id \in DOMAIN IntValue }
                 created == { p \in selected :
                                SelectedOutcome(entry[p], answer[p]) = "created" }
             IN sl' = [sl EXCEPT
                         !.posts = [p \in DOMAIN @ |->
                                       IF p \in sent THEN @[p] + 1 ELSE @[p]],
                         !.selected_ok = @ \cup created,
                         !.ops = @ + 1]
    /\ UNCHANGED << old_vars, full, io, rq, an, vf, rv, mr >>

\* a restore run with the ledger of the snapshot (restore_batch of ui.py, or
\* the command line with --progress), every create-request accepted
RestoreRun ==
    /\ sl.ops < MaxOps
    /\ \E limit \in {None, Some(MaxBatch)} :
          LET bd == sl.backup_data
              now == sl.ops + 1
              ld == LoadProgress(TRUE, sl.progress, TRUE)
              st == RestoreLoop(bd, limit,
                        [pos |-> NextPos(bd, 0, 0), pd |-> ld.pd, stats |-> InitStats,
                         created |-> 0, raised |-> FALSE, progress_file |-> TRUE,
                         now |-> now] @@ NothingThere)
              created == { p \in Positions(bd) :
                             LET id == ItemId(bd[p[1]].name, bd[p[1]].items[p[2]]) IN
                             id \in SubmittedKeys(st.pd) /\ id \notin SubmittedKeys(ld.pd) }
          IN sl' = [sl EXCEPT
                      !.progress = Overwrite(@, SetKey(st.pd, "last_updated", now)),
                      !.posts = [p \in DOMAIN @ |->
                                    IF p \in created THEN @[p] + 1 ELSE @[p]],
                      !.ledger_ok = @ \cup created,
                      !.ops = @ + 1]
    /\ UNCHANGED << old_vars, full, io, rq, an, vf, rv, mr >>

NextSelected == RestoreSelected \/ RestoreRun

SpecSelected == InitSelected /\ [][NextSelected]_vars

\* -------------------------------------------------- runs on one ledger
\* restore_to_overseerr called again and again with one snapshot, one
\* batch_limit and one progress file, while the disk and the media server stay
\* as they are, every create-request is accepted and every save succeeds.

\* a run that ended: it raised, or it returned its statistics
RunRaised == [raised |-> TRUE, requests_created |-> 0, batch_limit_reached |-> FALSE]
RunReturned(st) ==
    [raised |-> FALSE, requests_created |-> st.requests_created,
     batch_limit_reached |-> st.batch_limit_reached]

InitRuns ==
    /\ RestoreIdle
    /\ CleanupIdle
    /\ SnapshotIdle
    /\ ExportIdle
    /\ procs = <<>>
    /\ FullIdle
    /\ FilesIdle
    /\ RetryIdle
    /\ AnalyzeIdle
    /\ VerifyIdle
    /\ ReviewIdle
    /\ SelectedIdle
    /\ \E bd \in ReviewSnapshots, on_disk \in BOOLEAN, live \in LiveOutcomes,
          limit \in 1..(MaxBatch + 1) :
          mr = [backup_data |-> bd, on_disk |-> on_disk, live |-> live,
                batch_limit |-> limit, progress |-> None, runs |-> <<>>]

\* one call: the ledger is loaded, the loops run, the ledger is saved unless
\* the loops raised
RunAgain ==
    /\ Len(mr.runs) < MaxOps
    /\ LET bd == mr.backup_data
           now == Len(mr.runs) + 1
           ld == LoadProgress(TRUE, mr.progress, TRUE)
           st == RestoreLoop(bd, Some(mr.batch_limit),
                     [pos |-> NextPos(bd, 0, 0), pd |-> ld.pd, stats |-> InitStats,
                      created |-> 0, raised |-> FALSE, progress_file |-> TRUE,
                      now |-> now] @@ [NothingThere EXCEPT !.on_disk = mr.on_disk,
                                                            !.live = mr.live])
       IN mr' = IF st.raised
                THEN [mr EXCEPT !.runs = Append(@, RunRaised)]
                ELSE [mr EXCEPT
                        !.runs = Append(@, RunReturned(st.stats)),
                        !.progress = Overwrite(@, SetKey(st.pd, "last_updated", now))]
    /\ UNCHANGED << old_vars, full, io, rq, an, vf, rv, sl >>

NextRuns == RunAgain

SpecRuns == InitRuns /\ [][NextRuns]_vars

\* ----------------------------------------- runs with rejected requests
\* The same repetition when the request service may reject and the disk may
\* change between the runs.

\* the answers to the first and to the second post for an item: accepted, a
\* 409, a CSRF 403 followed by a plain 403, an exception of request_with_retry
RejectAnswers ==
    LET Status(st, csrf) == [raised |-> FALSE, status |-> st, csrf |-> csrf] IN
    { <<Created, Created>>,
      <<Status(409, FALSE), Status(409, FALSE)>>,
      <<Status(403, TRUE), Status(403, FALSE)>>,
      <<[raised |-> TRUE, status |-> 0, csrf |-> FALSE],
        [raised |-> TRUE, status |-> 0, csrf |-> FALSE]>> }

InitRejected ==
    /\ RestoreIdle
    /\ CleanupIdle
    /\ SnapshotIdle
    /\ ExportIdle
    /\ procs = <<>>
    /\ FullIdle
    /\ FilesIdle
    /\ RetryIdle
    /\ AnalyzeIdle
    /\ VerifyIdle
    /\ ReviewIdle
    /\ SelectedIdle
    /\ \E bd \in ConcSnapshots, limit \in {None, Some(MaxBatch)} :
          mr = [backup_data |-> bd, batch_limit |-> limit, progress |-> None,
                runs |-> <<>>]

\* one call; of each run the disk, the answers of the service, how every
\* position ended, the statistics and the keys of the ledger file after it are
\* kept
RunWithAnswers ==
    /\ Len(mr.runs) < MaxOps
    /\ \E on_disk \in BOOLEAN, answers \in [Positions(mr.backup_data) -> RejectAnswers] :
       LET bd == mr.backup_data
           now == Len(mr.runs) + 1
           ld == LoadProgress(TRUE, mr.progress, TRUE)
           st == RestoreLoop(bd, mr.batch_limit,
                     [pos |-> NextPos(bd, 0, 0), pd |-> ld.pd, stats |-> InitStats,
                      created |-> 0, raised |-> FALSE, progress_file |-> TRUE,
                      now |-> now] @@ [NothingThere EXCEPT !.on_disk = on_disk,
                                                            !.answers = answers])
           file == IF st.raised THEN mr.progress
                   ELSE Overwrite(mr.progress, SetKey(st.pd, "last_updated", now))
       IN mr' = [mr EXCEPT
                   !.progress = file,
                   !.runs = Append(@, [on_disk |-> on_disk, answers |-> answers,
                                       log |-> st.log, stats |-> st.stats,
                                       keys |-> FileKeys(file)])]
    /\ UNCHANGED << old_vars, full, io, rq, an, vf, rv, sl >>

NextRejected == RunWithAnswers

SpecRejected == InitRejected /\ [][NextRejected]_vars

\* ------------------------------------------------------------ properties
ItemAt(p) == backup_data[p[1]].items[p[2]]
IdAt(p) == ItemId(backup_data[p[1]].name, ItemAt(p))
AllPos == Positions(backup_data)
With(outcomes) == { p \in AllPos : trace[p] \in outcomes }

\* the outcomes of an item that the run found missing
MissingOutcomes ==
    {"missing", "limit", "notmdb", "unsupported", "created", "rejected", "error"}
\* the outcomes counted in requests_skipped
SkippedOutcomes == {"ledger", "unknown", "notmdb", "unsupported", "rejected"}

\* C1: with a progress file that is absent at first, no item gets a second
\* accepted (200/201/202) create-request over the runs, and a run creates
\* requests only for items absent from the ledger file it started from; stated
\* here for the runs in which no load and no save of the progress file failed
C1_IdempotentSubmission ==
    (progress_file /\ load_result # "failed" /\ save_result # "failed")
        => /\ \A p \in AllPos : accepted[p] <= 1
           /\ \A p \in With({"created"}) : IdAt(p) \notin FileKeys(file_before)

\* C2: the keys under 'submitted' in the progress file after a run include
\* the keys that were in the file before that run
C2_MonotonicLedger ==
    (pc = "done" /\ progress_file) => FileKeys(file_before) \subseteq FileKeys(ledger_file)

\* C3: with an integer batch_limit N >= 0, requests_created never exceeds N
C3_HardBatchCap ==
    (Len(batch_limit) = 1 /\ batch_limit[1] >= 0)
        => stats.requests_created <= batch_limit[1]

\* C4 as stated: with batch_limit N >= 1, a run that found more than N items
\* missing ends with requests_created = N and batch_limit_reached = true
C4_BatchCapRespected ==
    (pc = "done" /\ Len(batch_limit) = 1 /\ batch_limit[1] >= 1
        /\ Cardinality(With(MissingOutcomes)) > batch_limit[1])
        => /\ stats.requests_created = batch_limit[1]
           /\ stats.batch_limit_reached

\* C4 as amended: with batch_limit N >= 1, a run that found more than N items
\* missing, each of them either submitted with an accepted answer or stopped
\* by the cap, ends with requests_created = N, with N new ledger keys if a
\* progress file is given, and with batch_limit_reached = true
C4_BatchCapWhenAllAccepted ==
    (pc = "done" /\ Len(batch_limit) = 1 /\ batch_limit[1] >= 1
        /\ Cardinality(With(MissingOutcomes)) > batch_limit[1]
        /\ With(MissingOutcomes) = With({"created", "limit"}))
        => /\ stats.requests_created = batch_limit[1]
           /\ stats.batch_limit_reached
           /\ progress_file =>
                Cardinality(SubmittedKeys(progress_data) \ loaded_keys) = batch_limit[1]

C4_Witness ==
    /\ pc = "done" /\ batch_limit = Some(1) /\ progress_file
    /\ Cardinality(With({"created"})) = 1
    /\ Cardinality(With({"limit"})) = 1
    /\ stats.batch_limit_reached

\* C5: when the driver starts on the next item, the ledger entry of every
\* item created so far in the run is in the progress file
C5_PerItemDurability ==
    (progress_file /\ pc = "loop")
        => \A p \in With({"created"}) : IdAt(p) \in FileKeys(ledger_file)

\* C6: an item whose id is in the loaded ledger is not looked up on disk, not
\* queried and not posted, and is counted in requests_skipped and nowhere else
C6_LedgerPrecedence ==
    /\ \A p \in AllPos :
          (Has(ItemAt(p), "ratingKey") /\ IdAt(p) \in loaded_keys)
             => /\ trace[p] \in {"none", "ledger"}
                /\ last.pos = p =>
                      last.stat = "none" /\ last.live = "none" /\ last.posts = 0
    /\ stats.requests_skipped = Cardinality(With(SkippedOutcomes))
    /\ stats.already_exist = Cardinality(With({"exists"}))
    /\ stats.total_missing = Cardinality(With(MissingOutcomes))
    /\ stats.requests_created = Cardinality(With({"created"}))
    /\ stats.errors = Cardinality(With({"error"}))

\* a re-run after a run that created the one item: created = 0, skipped = 1
C6_Witness ==
    /\ pc = "done" /\ run = 2 /\ Cardinality(AllPos) = 1
    /\ With({"ledger"}) = AllPos
    /\ stats.requests_created = 0 /\ stats.requests_skipped = 1
    /\ \A p \in AllPos : accepted[p] = 1

\* C7: in a run with a progress file, the keys of 'submitted' are the keys
\* loaded plus the ids of the items whose last response was 200, 201 or 202;
\* the file a run wrote holds those keys
C7_LedgerSoundAndComplete ==
    progress_file =>
        /\ SubmittedKeys(progress_data) = loaded_keys \cup { IdAt(p) : p \in With({"created"}) }
        /\ last.pos \in AllPos =>
              (trace[last.pos] = "created" <=> last.answer = "accepted")
        /\ (pc = "done" /\ save_result = "saved")
              => FileKeys(ledger_file) = SubmittedKeys(progress_data)

C7_Witness ==
    /\ pc = "done" /\ progress_file /\ save_result = "saved"
    /\ loaded_keys # {}
    /\ With({"created"}) # {}
    /\ last.answer = "accepted"

\* C8: no item makes the run raise
C8_NoItemAbortsRun == pc # "raised"

\* C9: a movie that is not in the ledger is found missing if and only if it
\* has no stored file_path or the disk says the path is absent; the stored
\* file_exists plays no part
C9_MovieRecheck ==
    \A p \in AllPos :
        (last.pos = p /\ trace[p] \notin {"none", "ledger", "raise"}
            /\ Has(ItemAt(p), "type") /\ ItemAt(p).type = "movie")
          => (trace[p] \in MissingOutcomes
                <=> \/ ~Has(ItemAt(p), "file_path")
                    \/ ItemAt(p).file_path = ""
                    \/ last.stat = "absent")

\* stored file_exists = false, the file is on disk now: counted as existing
C9_Witness ==
    /\ last.pos \in AllPos
    /\ ItemAt(last.pos) = SetKey(Movie("/m/a.mkv", FALSE, "111"), "ratingKey", last.pos[2])
    /\ last.stat = "present"
    /\ trace[last.pos] = "exists"
    /\ stats.already_exist = 1

\* C10: a show that is not in the ledger, with b episodes stored and a live
\* count c obtained, is found missing if and only if c < b
C10_ShowThreshold ==
    \A p \in AllPos :
        (last.pos = p /\ last.live = "ok" /\ trace[p] # "raise")
          => (trace[p] \in MissingOutcomes <=> last.current < ItemAt(p).episodes)

C10_Witness ==
    /\ last.pos \in AllPos
    /\ last.live = "ok"
    /\ ItemAt(last.pos).episodes = MaxEpisodes
    /\ last.current = MaxEpisodes - 1
    /\ trace[last.pos] \in MissingOutcomes

\* C11: a show whose live episode query failed (it raised after the retries,
\* or answered with a status other than 200, a 429 that outlasted the retries
\* included, or answered without metadata) is not found missing and gets no
\* create-request
C11_FailSafeOnQueryFailure ==
    \A p \in AllPos :
        (last.pos = p /\ last.live \in {"raise", "non200", "nometa"}
            /\ trace[p] # "raise")
          => trace[p] \notin MissingOutcomes /\ last.posts = 0

\* the items C12 is about: a type other than movie and show, or no tmdb_id
OtherType(item) == Has(item, "type") /\ item.type \notin {"movie", "show"}
NoTmdb(item) == ~Has(item, "tmdb_id") \/ item.tmdb_id = ""

C13_NeverDeletesLedger == \A n \in removed : ~IsProgress(n)

Holds(p) ==
    /\ procs[p].saved = "saved"
    /\ ledger_file = Some(procs[p].progress_data)

\* C15: the progress file is never a merge: once a process has written it, it
\* holds the dict of one process and nothing else, so a key that only the
\* other process recorded is not in it
C15_LastWriterWins ==
    (\E p \in Procs : procs[p].saved = "saved")
        => \E p \in Procs :
              /\ Holds(p)
              /\ FileKeys(ledger_file) = SubmittedKeys(procs[p].progress_data)

\* both processes returned and saved; a key recorded by one is not in the
\* file, and one item has an accepted create-request from each of them
C15_Witness ==
    /\ \A p \in Procs : procs[p].pc = "done" /\ procs[p].saved = "saved"
    /\ \E p \in Procs :
          SubmittedKeys(procs[p].progress_data) \ FileKeys(ledger_file) # {}
    /\ procs[1].sent \cap procs[2].sent # {}

\* C16: when the restore loads a snapshot file that is as export_library
\* wrote it, the checksum it recomputes equals the stored one and no mismatch
\* is reported; the document it loads is the document that was exported
C16_ChecksumRoundTrip ==
    (snap_pc = "loaded" /\ snapshot_file = exported_file)
        => /\ loaded[1].calculated = loaded[1].stored
           /\ ~loaded[1].warned
           /\ WithoutChecksum(loaded[1].backup_data) = document

\* a document with a character outside ASCII, on an installation whose line
\* end is CR LF
C16_Witness ==
    /\ snap_pc = "loaded" /\ snapshot_file = exported_file
    /\ linesep = "CRLF"
    /\ \E i \in 1..Len(document) : "e-acute" \in { document[i][2][j] : j \in 1..Len(document[i][2]) }
    /\ loaded[1].stored # <<>>
    /\ ~loaded[1].warned

\* the file with the same content and the checksum that matches it
Rechecksummed(text, nl) == ExportText(WithoutChecksum(Parse(text)), nl)

Recordable(server, name, verify_files) ==
    LET items == GetLibraryItems(server, name, "ok") IN
    { i \in 1..Len(items) : ~ProcessRaw(items[i], verify_files, "exists").raised }

\* C18: the process fails, and leaves no snapshot, only when the probe of the
\* constructor is not a 200; in a run past the probe every library that was
\* fetched is in the libraries to write: with an empty list when its listing
\* failed, with one record per processable item when it did not, whatever
\* happened to the other libraries
C18_FatalOnlyOnProbe ==
    /\ ex.exit_status \notin {-1, 0} => export_args.probe # "ok"
    /\ (export_args.probe # "ok" /\ ex.pc # "start")
          => ex.exit_status = 1 /\ ex.snapshot = "none" /\ ex.listing = EmptyDict
    /\ (export_args.probe = "ok" /\ ex.pc \in {"exited", "returned"})
          => /\ ex.exit_status = 0
             /\ DOMAIN ex.libraries_data = DOMAIN ex.listing
             /\ \A n \in DOMAIN ex.listing :
                   IF ex.listing[n] = "ok"
                   THEN Len(ex.libraries_data[n]) =
                          Cardinality(Recordable(export_args.server, n,
                                                 export_args.verify_files))
                   ELSE ex.libraries_data[n] = <<>>

\* the listing of one library failed although the server has an item in it,
\* the other library was exported with its record, and the file was written
C18_Witness ==
    /\ ex.pc = "exited" /\ ex.exit_status = 0 /\ ex.write = "ok"
    /\ \E n, m \in DOMAIN ex.listing :
          /\ ex.listing[n] \in {"timeout", "non200", "raise"}
          /\ Recordable(export_args.server, n, export_args.verify_files) # {}
          /\ ex.libraries_data[n] = <<>>
          /\ ex.listing[m] = "ok"
          /\ Len(ex.libraries_data[m]) = 1

\* C19: a backup run whose snapshot file could not be written ends with a
\* non-zero exit status, and run_backup returns None for it
C19_UnwritableIsFatal ==
    ex.write \in {"unwritable", "partial"}
        => /\ ex.exit_status # 0
           /\ ex.pc = "returned" => ex.result = "None"

RECURSIVE StoredItems(_)
StoredItems(ld) ==
    IF DOMAIN ld = {} THEN 0
    ELSE LET n == CHOOSE n \in DOMAIN ld : TRUE IN
         Len(ld[n]) + StoredItems([m \in DOMAIN ld \ {n} |-> ld[m]])

\* the run was given a library name more than once: the list of the later
\* export replaces the list of the earlier one under the name
RepeatedName ==
    \E i, j \in 1..Len(export_args.library_names) :
       i < j /\ export_args.library_names[i] = export_args.library_names[j]

\* C20: every raw item handled so far either gave exactly one record or
\* raised and was counted in errors: total_items + errors is the number of
\* raw items handled, and total_items is the number of records appended
\* (all of them still held by the lists when no list was replaced)
C20_PerItemIsolation ==
    ex # EmptyDict =>
        /\ ex.stats.total_items + ex.stats.errors = ex.processed
        /\ ex.stats.total_items = ex.appended
        /\ ~RepeatedName =>
              ex.appended = Len(ex.library_backup) + StoredItems(ex.libraries_data)
        /\ ex.pc = "items" => ex.item_no < Len(ex.items)

\* two raw items: one raised, the other gave a record although its file is
\* not on disk
C20_Witness ==
    /\ ex # EmptyDict /\ ex.pc = "exited" /\ ex.write = "ok"
    /\ ex.processed = 2 /\ ex.stats.errors = 1 /\ ex.stats.total_items = 1
    /\ \E n \in DOMAIN ex.libraries_data :
          /\ Len(ex.libraries_data[n]) = 1
          /\ Get(ex.libraries_data[n][1], "file_status", "") = "File not found on disk"

\* C21: when restore-full returns and no batch of it failed, every item of
\* the snapshot (all missing, all submittable, every create-request accepted)
\* is in the ledger
C21_FullModeSubmitsAll ==
    (full # EmptyDict /\ full.pc = "returned" /\ ~full.failed)
        => \A p \in Positions(full.backup_data) :
              ItemId(full.backup_data[p[1]].name, full.backup_data[p[1]].items[p[2]])
                  \in FileKeys(full.progress)

\* C22: at every step of a restore run the snapshot file holds what it held
\* before the run, and so does every file other than the progress file
C22_SnapshotReadOnly ==
    io # EmptyDict
        => /\ (io.backup_file \in DOMAIN io.disk) <=> (io.backup_file \in DOMAIN io.before)
           /\ io.backup_file \in DOMAIN io.before
                 => io.disk[io.backup_file] = io.before[io.backup_file]
           /\ \A path \in DOMAIN io.before :
                 (io.progress_file = None \/ path # io.progress_file[1])
                     => (path \in DOMAIN io.disk /\ io.disk[path] = io.before[path])

\* C23: with batch_limit N >= 1, once the N-th request of the call is created
\* the run examines no further item (the created item stays the item handled
\* last) and it returns with batch_limit_reached = true
C23_StopsAtCap ==
    (Len(batch_limit) = 1 /\ batch_limit[1] >= 1
        /\ requests_created_this_batch >= batch_limit[1])
        => /\ last.outcome = "created"
           /\ pc = "done" => stats.batch_limit_reached

\* the attempts of the call that ended in a timeout or a connection error
TransientAttempts == { k \in 1..Len(rq.outcomes) : IsTransient(rq.outcomes[k]) }

\* C24: a 429 response does not use up the attempts: the caller never gets a
\* 429 response as the result, and the call gives up with a network error
\* only after max_retries attempts ended in a network error
C24_RateLimitKeepsBudget ==
    rq # EmptyDict
        => /\ rq.pc = "returned" => rq.result[1].status # 429
           /\ (rq.pc = "raised" /\ rq.raised \in {"Timeout", "ConnectionError"})
                 => Cardinality(TransientAttempts) = rq.max_retries

\* C25: when every attempt so far ended in a timeout or a connection error,
\* at most max_retries attempts were made, the waits were 5, 10, ... with
\* none after the last attempt, and the call has raised the exception of its
\* last attempt iff max_retries attempts were made; a response other than 429
\* is the result and the last attempt
C25_BoundedLinearBackoff ==
    rq # EmptyDict
        => /\ (\A k \in 1..Len(rq.outcomes) : IsTransient(rq.outcomes[k]))
                 => /\ Len(rq.outcomes) <= rq.max_retries
                    /\ rq.slept = [k \in 1..(IF Len(rq.outcomes) < rq.max_retries
                                             THEN Len(rq.outcomes)
                                             ELSE rq.max_retries - 1) |-> 5 * k]
                    /\ (Len(rq.outcomes) = rq.max_retries) <=> (rq.pc = "raised")
                    /\ rq.pc = "raised" => rq.raised = rq.outcomes[Len(rq.outcomes)].kind
                    /\ rq.pc \in {"try", "raised"}
           /\ \A k \in 1..Len(rq.outcomes) :
                 (rq.outcomes[k].kind = "response" /\ ~IsRateLimited(rq.outcomes[k]))
                     => /\ k = Len(rq.outcomes)
                        /\ rq.pc = "returned"
                        /\ rq.result = Some(rq.outcomes[k])

C25_Witness ==
    /\ rq # EmptyDict
    /\ rq.max_retries = 3 /\ rq.pc = "raised" /\ rq.raised = "ConnectionError"
    /\ Len(rq.outcomes) = 3
    /\ \A k \in 1..3 : IsTransient(rq.outcomes[k])
    /\ rq.outcomes[1].kind = "Timeout"
    /\ rq.slept = <<5, 10>>

\* C26: a create-request answered 403 with a CSRF body is sent once more and
\* no third time, whatever the second answer is; an item whose second answer
\* is not 200, 201 or 202 is counted as skipped (or as an error if the call
\* raised) and is not put in the ledger; any other first answer is final
C26_CsrfRetryOnce ==
    last.pos \in AllPos =>
        /\ last.first = "403-csrf" <=> last.posts = 2
        /\ last.first \in {"raised", "403", "accepted", "refused"} <=> last.posts = 1
        /\ last.posts <= 2
        /\ last.posts = 2 =>
              /\ last.second \in {"403-csrf", "403", "refused"}
                    => /\ trace[last.pos] = "rejected"
                       /\ IdAt(last.pos) \notin SubmittedKeys(progress_data) \ loaded_keys
              /\ last.second = "accepted" => trace[last.pos] = "created"
              /\ last.second = "raised" => trace[last.pos] = "error"
        /\ last.posts = 1 =>
              /\ last.first \in {"403", "refused"} => trace[last.pos] = "rejected"
              /\ last.first = "accepted" => trace[last.pos] = "created"
        /\ stats.requests_skipped = Cardinality(With(SkippedOutcomes))

\* a second 403 with a CSRF body: two requests, the item skipped
C26_Witness ==
    /\ pc = "done" /\ progress_file
    /\ last.pos \in AllPos
    /\ last.first = "403-csrf" /\ last.second = "403-csrf" /\ last.posts = 2
    /\ trace[last.pos] = "rejected"
    /\ stats.requests_skipped = 1
    /\ SubmittedKeys(progress_data) = {}

\* p comes before q in the snapshot: an earlier library, or the same library
\* and an earlier item
Before(p, q) == p[1] < q[1] \/ (p[1] = q[1] /\ p[2] < q[2])

\* the items a run has handled are the ones up to the item handled last, none
\* of them stopped at the cap or left out, and at most batch_limit created
HandledInOrder ==
    /\ \A p, q \in AllPos :
          (Before(p, q) /\ trace[q] # "none") => trace[p] \notin {"none", "limit", "raise"}
    /\ \A q \in AllPos : trace[q] # "none" => (q = last.pos \/ Before(q, last.pos))
    /\ TruthyInt(batch_limit) => Cardinality(With({"created"})) <= batch_limit[1]

\* C27: a run examines the items in snapshot order (libraries in stored order,
\* items in stored order): the item it handles next comes after the item it
\* handled last, every item before a handled item has been handled, so no
\* request is sent while an earlier item is unattempted, and the created
\* items are the first batch_limit accepted ones in that order
C27_SnapshotOrder ==
    /\ []HandledInOrder
    /\ [][(run' = run /\ last.pos \in AllPos /\ last'.pos # last.pos)
             => Before(last.pos, last'.pos)]_vars

\* a run over two libraries that created the item of each, in order
C27_Witness ==
    /\ pc = "done" /\ Len(backup_data) = 2
    /\ <<1, 1>> \in AllPos /\ <<2, 1>> \in AllPos
    /\ trace[<<1, 1>>] = "created" /\ trace[<<2, 1>>] = "created"
    /\ last.pos = <<2, 1>>

\* the episodes of a detailed show that are absent now, as <<season, episode>>
\* in the order of the seasons and of the episodes inside a season: an episode
\* with a file path whose file is not on disk, or one without a file path that
\* is stored as not existing
AbsentNow(item, disk) ==
    LET sd == item.season_details
        cells == { q \in (1..Len(sd)) \X (1..MaxDetailedEpisodes) :
                     /\ q[2] <= Len(sd[q[1]].episodes)
                     /\ LET ep == sd[q[1]].episodes[q[2]] IN
                        IF Has(ep, "file_path") /\ ep.file_path # ""
                        THEN ep.file_path \notin disk
                        ELSE ~ep.file_exists }
        rank(q) == Cardinality({ c \in cells : c = q \/ Before(c, q) })
    IN [i \in 1..Cardinality(cells) |-> CHOOSE q \in cells : rank(q) = i]

\* S<season, two digits>E<episode, two digits>
TwoDigitId(q) ==
    "S" \o ToString(q[1] \div 10) \o ToString(q[1] % 10)
        \o "E" \o ToString(q[2] \div 10) \o ToString(q[2] % 10)

\* C28: a show with detailed data is reported missing iff one of its episodes
\* is absent now; the reason lists the identifiers of all absent episodes in
\* season/episode order when they are at most 10, and gives their number out
\* of the total when they are more
C28_DetailedTracking ==
    (an # EmptyDict /\ an.pc = "done" /\ Has(an.item, "season_details"))
        => LET absent == AbsentNow(an.item, an.disk)
               k == Len(absent)
           IN /\ (an.missing_items # <<>>) <=> (k >= 1)
              /\ (k >= 1 /\ k <= 10)
                    => /\ an.missing_items[1].reason.text = "Missing episodes"
                       /\ an.missing_items[1].reason.ids = [i \in 1..k |-> TwoDigitId(absent[i])]
              /\ k > 10
                    => /\ an.missing_items[1].reason.text = "Missing k/total episodes"
                       /\ an.missing_items[1].reason.ids = <<>>
                       /\ an.missing_items[1].reason.k = k
                       /\ an.missing_items[1].reason.of = an.item.episodes

\* eleven episodes in two seasons, all with a path, none on disk
C28_Witness ==
    /\ an # EmptyDict /\ an.pc = "done" /\ Has(an.item, "season_details")
    /\ Len(an.item.season_details) = 2
    /\ Len(an.item.season_details[1].episodes) = 1
    /\ Has(an.item.season_details[1].episodes[1], "file_path")
    /\ an.disk = {}
    /\ an.missing_items # <<>>
    /\ an.missing_items[1].reason.k = 11
    /\ an.missing_items[1].reason.of = 11

\* what the raw item holds, read off the item itself: a Media list with an
\* entry, in its first entry a Part list with an entry, in its first part a
\* file that is not empty
MediaInfo(item) == Has(item, "Media") /\ Len(item.Media) > 0
PartInfo(item) ==
    /\ MediaInfo(item)
    /\ Has(item.Media[1], "Part")
    /\ Len(item.Media[1].Part) > 0
FileOf(item) ==
    IF PartInfo(item) /\ Has(item.Media[1].Part[1], "file")
    THEN item.Media[1].Part[1].file ELSE ""
WellFormed(item) ==
    /\ ~Has(item, "notadict")
    /\ MediaInfo(item) => ~Has(item.Media[1], "notadict")
    /\ PartInfo(item) => ~Has(item.Media[1].Part[1], "notadict")

AbsenceReasons ==
    << "No media information", "No part information", "No file path in metadata",
       "File not found on disk" >>

\* C29: verify_file_exists never raises; for a show it answers exists exactly
\* when leafCount is there and above 0; for a movie exactly when the item has
\* a Media entry, that entry a Part entry, the part a file path that is not
\* empty, and the stat of the path succeeds; a movie without Media, without
\* Part, without a path, or whose file is not on disk gets exists = false
\* with a reason of its own, the four reasons pairwise different
C29_FileVerifier ==
    vf # EmptyDict /\ vf.pc = "returned" =>
    LET item == vf.item
        r == vf.result
        type == IF Has(item, "type") THEN item.type ELSE "unknown"
    IN /\ ~r.raised
       /\ ~Has(item, "notadict") /\ type = "show" =>
             (r.exists <=> (Has(item, "leafCount") /\ item.leafCount > 0))
       /\ ~Has(item, "notadict") /\ type = "movie" =>
             /\ r.exists <=> /\ MediaInfo(item) /\ PartInfo(item) /\ FileOf(item) # ""
                             /\ vf.on_disk = "exists"
             /\ ~MediaInfo(item) => ~r.exists /\ r.reason = AbsenceReasons[1]
             /\ WellFormed(item) /\ MediaInfo(item) /\ ~PartInfo(item) =>
                   ~r.exists /\ r.reason = AbsenceReasons[2]
             /\ WellFormed(item) /\ PartInfo(item) /\ FileOf(item) = "" =>
                   ~r.exists /\ r.reason = AbsenceReasons[3]
             /\ FileOf(item) # "" /\ vf.on_disk = "absent" =>
                   ~r.exists /\ r.reason = AbsenceReasons[4]
       /\ \A i, j \in 1..4 : i # j => AbsenceReasons[i] # AbsenceReasons[j]

\* a movie whose file the metadata names and the disk does not have was checked
C29_Witness ==
    /\ vf # EmptyDict /\ vf.pc = "returned"
    /\ Has(vf.item, "type") /\ vf.item.type = "movie"
    /\ FileOf(vf.item) # "" /\ vf.on_disk = "absent"
    /\ ~vf.result.exists /\ vf.result.reason = "File not found on disk"

\* the names the server has, and what get_libraries handed to the run
ServerLibraries == { export_args.server[l].name : l \in 1..Len(export_args.server) }
ReportedLibraries == IF ex.get_libraries = "ok" THEN ServerLibraries ELSE {}

\* C30: a run of export_library without library names ends with exactly the
\* reported libraries that are not in the skip list as the keys of
\* 'libraries'; in every run, with names or without, no library of the skip
\* list is among the keys and none is fetched
C30_LibrarySelection ==
    ex # EmptyDict =>
    /\ DOMAIN ex.libraries_data \cap export_args.skip_libraries = {}
    /\ DOMAIN ex.listing \cap export_args.skip_libraries = {}
    /\ ex.lib_name \notin export_args.skip_libraries
    /\ ex.pc \in {"exited", "returned"} /\ ex.exit_status = 0
       /\ export_args.library_names = <<>> =>
          DOMAIN ex.libraries_data = ReportedLibraries \ export_args.skip_libraries

\* a run without names ended; the server reported a library of the skip list
\* and another one, and only the other one was fetched and stored
C30_Witness ==
    /\ ex # EmptyDict
    /\ ex.pc = "exited" /\ ex.exit_status = 0 /\ ex.snapshot = "whole"
    /\ export_args.library_names = <<>>
    /\ ex.get_libraries = "ok"
    /\ ServerLibraries \cap export_args.skip_libraries # {}
    /\ DOMAIN ex.libraries_data # {}
    /\ DOMAIN ex.listing = ServerLibraries \ export_args.skip_libraries

\* the snapshots a backup writes, plain and compressed
SnapshotFiles ==
    { SnapshotName(d) : d \in 0..MaxDay }
    \cup { CompressedName(SnapshotName(d)) : d \in 0..MaxDay }

\* a step that is a call cleanup_old_backups(days_to_keep)
CleanupStep(days_to_keep) ==
    /\ backup_dir' = Drop(backup_dir, ToRemove(backup_dir, today, days_to_keep))
    /\ removed' = removed \cup ToRemove(backup_dir, today, days_to_keep)
    /\ today' = today

\* C31: cleanup_old_backups(days_to_keep) leaves no snapshot, plain or
\* compressed, whose modification time is before now minus days_to_keep, and
\* removes no snapshot whose modification time is at or after it
C31_RetentionCleanup ==
    [][\A days_to_keep \in 0..MaxKeep :
          CleanupStep(days_to_keep) =>
             \A n \in SnapshotFiles \cap DOMAIN backup_dir :
                IF backup_dir[n] < today - days_to_keep
                THEN n \notin DOMAIN backup_dir'
                ELSE n \in DOMAIN backup_dir']_vars

\* the same for the plain snapshots alone
C31_PlainOnly ==
    [][\A days_to_keep \in 0..MaxKeep :
          CleanupStep(days_to_keep) =>
             \A n \in { SnapshotName(d) : d \in 0..MaxDay } \cap DOMAIN backup_dir :
                IF backup_dir[n] < today - days_to_keep
                THEN n \notin DOMAIN backup_dir'
                ELSE n \in DOMAIN backup_dir']_vars

\* C34: on one snapshot, one disk and one server, the items the review reports
\* as missing are the items a restore run without ledger counts in
\* total_missing
C34_ReviewAgreesWithRestore ==
    rv # EmptyDict /\ rv.review = "returned" /\ rv.restore = "returned" =>
       rv.reviewed = rv.counted

\* the same for snapshots of movies that all have a file_path
C34_MoviesWithPath ==
    rv # EmptyDict /\ rv.review = "returned" /\ rv.restore = "returned"
    /\ (\A p \in Positions(rv.backup_data) :
          LET item == rv.backup_data[p[1]].items[p[2]] IN
          item.type = "movie" /\ StatsPath(item)) =>
       rv.reviewed = rv.counted

\* C32: for an item whose create-request restore-selected got accepted, no
\* later restore-selected or restore run on the snapshot sends a create-request
C32_SelectedNotResubmitted ==
    [][sl # EmptyDict =>
          \A p \in sl.selected_ok : sl'.posts[p] = sl.posts[p]]_vars

\* a restore run does not submit again what a restore run recorded
C32_RunAfterRun ==
    [][sl # EmptyDict /\ sl.progress # sl'.progress =>
          \A p \in sl.ledger_ok : sl'.posts[p] = sl.posts[p]]_vars

\* the items a run finds missing and can submit: missing by the type rule,
\* of a supported type, with a title and a numeric TMDB id
MissingSubmittable ==
    { p \in Positions(mr.backup_data) :
        LET item == mr.backup_data[p[1]].items[p[2]] IN
        /\ Has(item, "ratingKey") /\ Has(item, "type") /\ Has(item, "title")
        /\ \/ item.type = "movie" /\ ~(StatsPath(item) /\ mr.on_disk)
           \/ /\ item.type = "show"
              /\ Get(item, "episodes", 0) > 0
              /\ mr.live.kind # "raise"
              /\ (IF mr.live.kind = "ok" THEN mr.live.leafCount ELSE 0)
                    < Get(item, "episodes", 0)
        /\ TmdbId(item) \in DOMAIN IntValue }

\* ceil(m / n)
CeilDiv(m, n) == (m + n - 1) \div n

\* the runs that returned with nothing created and no batch limit reached
QuietRuns ==
    { k \in 1..Len(mr.runs) :
        /\ ~mr.runs[k].raised
        /\ mr.runs[k].requests_created = 0
        /\ ~mr.runs[k].batch_limit_reached }

\* C33: with M items missing and submittable and batch_limit N, one of the
\* first ceil(M/N) + 1 runs returns with requests_created = 0 and
\* batch_limit_reached = false, and from then on every such item is in the
\* ledger
C33_MultiRunProgress ==
    mr # EmptyDict =>
    LET bound == CeilDiv(Cardinality(MissingSubmittable), mr.batch_limit) + 1 IN
    /\ Len(mr.runs) >= bound => \E k \in QuietRuns : k <= bound
    /\ QuietRuns # {} =>
          \A p \in MissingSubmittable :
             ItemId(mr.backup_data[p[1]].name, mr.backup_data[p[1]].items[p[2]])
                \in FileKeys(mr.progress)

\* the same for the snapshots whose records all have ratingKey, type and title
C33_CompleteRecords ==
    mr # EmptyDict
    /\ (\A p \in Positions(mr.backup_data) :
          LET item == mr.backup_data[p[1]].items[p[2]] IN
          Has(item, "ratingKey") /\ Has(item, "type") /\ Has(item, "title")) =>
    LET bound == CeilDiv(Cardinality(MissingSubmittable), mr.batch_limit) + 1 IN
    /\ Len(mr.runs) >= bound => \E k \in QuietRuns : k <= bound
    /\ QuietRuns # {} =>
          \A p \in MissingSubmittable :
             ItemId(mr.backup_data[p[1]].name, mr.backup_data[p[1]].items[p[2]])
                \in FileKeys(mr.progress)

\* positions of the snapshot of mr in snapshot order
RunPositions == Positions(mr.backup_data)
RunItem(p) == mr.backup_data[p[1]].items[p[2]]
RunKey(p) == ItemId(mr.backup_data[p[1]].name, RunItem(p))
Ended(k, outcomes) == { p \in DOMAIN mr.runs[k].log : mr.runs[k].log[p] \in outcomes }

\* the item at p is missing for run k: a show (the server has none of its
\* episodes), or a movie whose file is not on the disk of that run
MissingIn(k, p) == RunItem(p).type = "show" \/ ~mr.runs[k].on_disk

\* run k sent a create-request for p
SubmittedIn(k, p) == p \in Ended(k, {"created", "rejected", "error"})

\* the create-request of run j for p ended with a status that is not a
\* success: the status of the second post after a CSRF 403, else of the first
Refused(j, p) ==
    LET ans == mr.runs[j].answers[p]
        final == IF ans[1].status = 403 /\ ans[1].csrf THEN ans[2] ELSE ans[1]
    IN /\ SubmittedIn(j, p)
       /\ ~ans[1].raised /\ ~final.raised
       /\ final.status \notin {200, 201, 202}

\* run j had the request for p refused and no run between j and k created it
RejectedBefore(j, k, p) ==
    /\ j < k
    /\ Refused(j, p)
    /\ \A i \in (j + 1)..(k - 1) : p \notin Ended(i, {"created"})

\* a rejected request counts as skipped only and leaves no ledger entry
RejectedAccounting ==
    \A j \in 1..Len(mr.runs) :
       /\ mr.runs[j].stats.requests_skipped
             = Cardinality(Ended(j, {"rejected", "ledger"}))
       /\ mr.runs[j].stats.requests_created = Cardinality(Ended(j, {"created"}))
       /\ mr.runs[j].stats.errors = Cardinality(Ended(j, {"error"}))
       /\ \A p \in RunPositions :
             Refused(j, p) =>
                p \in Ended(j, {"rejected"}) /\ RunKey(p) \notin mr.runs[j].keys

\* C35 as stated: a rejected request counts as skipped only and leaves no
\* ledger entry, and every later run for which the item is still missing sends
\* a create-request for it
C35_RejectedRetriedAlways ==
    mr # EmptyDict =>
    /\ RejectedAccounting
    /\ \A j, k \in 1..Len(mr.runs) : \A p \in RunPositions :
          RejectedBefore(j, k, p) /\ MissingIn(k, p) => SubmittedIn(k, p)

\* C35, amended: the same, for every later run that has not reached its batch
\* limit when it comes to the item; a run that has reached it counts the item
\* as missing and stops
C35_RejectedRetriedUnlessCapped ==
    mr # EmptyDict =>
    /\ RejectedAccounting
    /\ \A j, k \in 1..Len(mr.runs) : \A p \in RunPositions :
          RejectedBefore(j, k, p) =>
             /\ p \notin Ended(k, {"ledger"})
             /\ MissingIn(k, p) /\ Ended(k, {"limit"}) = {} => SubmittedIn(k, p)
             /\ MissingIn(k, p) /\ ~SubmittedIn(k, p) =>
                   /\ mr.runs[k].stats.batch_limit_reached
                   /\ Ended(k, {"limit"}) \subseteq {p}
                      \/ p \notin DOMAIN mr.runs[k].log

\* an item rejected by one run was submitted again, and accepted, by the next
C35_Witness ==
    /\ mr # EmptyDict
    /\ \E k \in 2..Len(mr.runs) : \E p \in RunPositions :
          /\ Refused(k - 1, p)
          /\ p \in Ended(k, {"created"})
          /\ RunKey(p) \in mr.runs[k].keys

\* every attempt of the call so far was answered with a response or ended in
\* a timeout or a connection error
OnlyResponsesAndTransients ==
    \A k \in 1..Len(rq.outcomes) :
       rq.outcomes[k].kind = "response" \/ IsTransient(rq.outcomes[k])

\* the kind of the last timeout or connection error of the call
LastTransient ==
    LET ks == TransientAttempts IN
    rq.outcomes[CHOOSE k \in ks : \A j \in ks : j <= k].kind

\* the call makes at most max_retries attempts and is over once it has made
\* max_retries of them
BoundedAttempts ==
    /\ Len(rq.outcomes) <= rq.max_retries
    /\ rq.attempt = Len(rq.outcomes)
    /\ Len(rq.outcomes) = rq.max_retries => rq.pc \in {"after", "returned", "raised"}
    /\ rq.pc = "after" => rq.last_exception # None \/ rq.response # None

\* the call ended by returning a response it received or by raising its last
\* timeout or connection error
EndsAsDocumented ==
    /\ rq.pc = "returned" =>
          /\ rq.result # None
          /\ rq.result[1] = rq.outcomes[Len(rq.outcomes)]
    /\ rq.pc = "raised" =>
          /\ TransientAttempts # {}
          /\ rq.raised = LastTransient

\* C38: whatever mix of 429 responses, timeouts and connection errors the
\* server produces, a call with max_retries >= 1 makes at most max_retries
\* attempts and ends by returning a response or by raising the last transient
\* exception
C38_RetryTerminates ==
    (rq # EmptyDict /\ OnlyResponsesAndTransients) =>
        BoundedAttempts /\ EndsAsDocumented

\* the same holds when no 429 response carries an HTTP date in Retry-After
C38_NumericRetryAfter ==
    (/\ rq # EmptyDict
     /\ OnlyResponsesAndTransients
     /\ \A k \in 1..Len(rq.outcomes) : rq.outcomes[k].retry_after # "date") =>
        BoundedAttempts /\ EndsAsDocumented

\* the attempts of the item's create-request for which the service created a
\* request
AcceptedAttempts == { k \in 1..Len(rq.served) : rq.served[k].created }

\* C36: within one run the service accepts at most one create-request for
\* the item, also when an attempt ended in a timeout or a connection error
\* and was sent again
C36_AtMostOneAccepted ==
    Has(rq, "served") => Cardinality(AcceptedAttempts) <= 1

\* at most one is accepted when no attempt ended in a timeout or a
\* connection error
C36_WithoutTransients ==
    (/\ Has(rq, "served")
     /\ \A k \in 1..Len(rq.served) :
           rq.served[k].kind \notin {"Timeout", "ConnectionError"}) =>
        Cardinality(AcceptedAttempts) <= 1

\* the snapshot of the run could not be opened or parsed: there is no file
\* under its path, or the file is not a JSON document in the compression its
\* name announces
LoadFails ==
    \/ io.backup_file \notin DOMAIN io.before
    \/ io.before[io.backup_file].kind # "json"
    \/ io.before[io.backup_file].gz # (io.backup_file = "s.json.gz")

\* C37: when the snapshot cannot be opened or parsed, the call returns the
\* empty result without raising, has examined no item and sent no request,
\* and leaves every file, the progress file included, as it was
C37_LoadFailureNoEffect ==
    (io # EmptyDict /\ LoadFails /\ io.pc # "load") =>
        /\ io.pc = "returned"
        /\ io.stats = EmptyDict
        /\ io.log = EmptyDict
        /\ io.progress_data = EmptyDict
        /\ io.disk = io.before

\* a call given a progress file that exists and a truncated snapshot returned
C37_Witness ==
    /\ io # EmptyDict
    /\ io.pc = "returned"
    /\ LoadFails
    /\ io.backup_file \in DOMAIN io.before
    /\ io.before[io.backup_file].kind = "truncated"
    /\ io.progress_file = Some("p.json")
    /\ "p.json" \in DOMAIN io.before

\* the items the run examined
Examined == { p \in AllPos : trace[p] # NoOutcome }

\* every examined item of a run that returned is counted in exactly one of
\* the four counters, except the item at which the batch limit triggered
OneCounterEach ==
    /\ stats.requests_skipped = Cardinality(With(SkippedOutcomes))
    /\ stats.already_exist = Cardinality(With({"exists"}))
    /\ stats.requests_created = Cardinality(With({"created"}))
    /\ stats.errors = Cardinality(With({"error"}))
    /\ Examined = With(SkippedOutcomes \cup {"exists", "created", "error", "limit"})
    /\ stats.requests_skipped + stats.already_exist + stats.requests_created
          + stats.errors + Cardinality(With({"limit"})) = Cardinality(Examined)
    /\ Cardinality(With({"limit"})) = (IF stats.batch_limit_reached THEN 1 ELSE 0)

\* C39: at the end of every restore run each examined item is in exactly one
\* of requests_skipped, already_exist, requests_created and errors, except the
\* one item at which the batch limit triggered, which is in total_missing
\* only; requests_created <= total_missing, and total_missing is the sum of
\* requests_created, errors, the missing items skipped for no TMDB id or a
\* rejected request, and 1 if batch_limit_reached
C39_StatsAccounting ==
    pc = "done" =>
        /\ OneCounterEach
        /\ With({"limit"}) \subseteq With(MissingOutcomes)
        /\ stats.requests_created <= stats.total_missing
        /\ stats.total_missing
              = stats.requests_created + stats.errors
                + Cardinality(With({"notmdb", "rejected"}))
                + (IF stats.batch_limit_reached THEN 1 ELSE 0)

\* a run returned after it found two items missing: the request of the
\* first was created, the second stopped the run at the batch limit
C39_Witness ==
    /\ pc = "done"
    /\ stats.batch_limit_reached
    /\ stats.requests_created = 1
    /\ Cardinality(With({"limit"})) = 1
    /\ stats.total_missing = 2

\* the item records stored under 'libraries' of the snapshot being built
StoredRecords ==
    SumSeq([l \in 1..Len(LibNames) |->
               IF LibNames[l] \in DOMAIN ex.libraries_data
               THEN Len(ex.libraries_data[LibNames[l]]) ELSE 0])

\* export_library has gone through its libraries: backup_data is built
SnapshotBuilt ==
    \/ ex.pc = "fetch" /\ ex.todo = <<>>
    \/ ex.pc \in {"exited", "returned"} /\ ex.write # "none"

\* total_items is the number of stored records, and with the file check on
\* every stored record is counted as verified or as missing
CountsOfStored ==
    /\ ex.stats.total_items = StoredRecords
    /\ export_args.verify_files =>
          ex.stats.verified_items + ex.stats.missing_files = ex.stats.total_items

\* C40: in every snapshot built by export_library total_items is the number
\* of records stored under 'libraries', verified + missing = total_items when
\* files are verified, and movies + shows <= total_items, also when items
\* raised during processing
C40_SnapshotStats ==
    SnapshotBuilt =>
        /\ CountsOfStored
        /\ ex.stats.movies + ex.stats.shows <= ex.stats.total_items

\* when no library is named twice the first two parts hold in every
\* snapshot, and the third when no item raised
C40_CountsOfStored ==
    (SnapshotBuilt /\ ~RepeatedName) =>
        /\ CountsOfStored
        /\ ex.stats.errors = 0 =>
              ex.stats.movies + ex.stats.shows <= ex.stats.total_items

\* total_items is the number of stored records also when a library is named
\* twice
C40_StoredWithRepeats ==
    SnapshotBuilt => ex.stats.total_items = StoredRecords

====
